---- MODULE Spec2Model ----
(***************************************************************************)
(* EduVerse backend: the course roster / teacher-assignment maintenance    *)
(* (app/crud/courses.py, app/routers/admins.py) and the quiz edit-lock     *)
(* (app/crud/quizzes.py) as state machines over the document store.        *)
(*                                                                         *)
(* The user accounts and the login (app/crud/users.py,                     *)
(* app/auth/auth_service.py) are a third part.                             *)
(*                                                                         *)
(* A request handler run to completion is one action; where the order of   *)
(* a handler's store operations matters, each awaited store operation is   *)
(* an action of its own and `calls` holds the requests in flight.  The     *)
(* store compares                                                          *)
(* values by type and content, so a 24-hex string and the ObjectId it      *)
(* spells are different values; ObjectId(...) parses hex digits of either  *)
(* case, while Python compares strings case-sensitively.  Identifier       *)
(* values therefore carry their kind and the case of their digits.         *)
(***************************************************************************)
EXTENDS Integers, FiniteSets, Sequences, TLC

VARIABLES
    courses,     \* db.courses: _id (hex) -> [tenantId, teacherId, enrolledStudents]
    teachers,    \* db.teachers: _id (hex) -> [tenantId, assignedCourses]
    students,    \* db.students: _id (hex) -> [tenantId, enrolledCourses]
    inserted,    \* number of course documents inserted so far (fresh _id source)
    quizzes,     \* db.quizzes: _id (hex) -> quiz document
    submissions, \* db.quizSubmissions: the quizId value of every stored submission
    now,         \* datetime.utcnow(): the clock read by the handlers
    calls,       \* the requests in flight: each handler's position and locals
    users,       \* db.users in insertion order: [email, password, role, lastLogin]
    profiles,    \* the profile documents inserted for users: [collection, userId]
    assignments, \* db.assignments: _id (hex) -> assignment document
    tenants,     \* db.tenants in insertion order
    assignmentSubmissions, \* db.assignmentSubmissions in insertion order
    modules,     \* the modules list of each course document, [] until one is set
    last         \* the last request handled: the operation and its response

vars == <<courses, teachers, students, inserted, quizzes, submissions, now, calls,
         users, profiles, assignments, tenants, assignmentSubmissions, modules,
         last>>

courseVars == <<courses, teachers, students, inserted>>
quizVars == <<quizzes, submissions, now>>
userVars == <<users, profiles>>
tenantVars == <<assignments, tenants, assignmentSubmissions>>

----------------------------------------------------------------------------
(* Bounds of the model *)

\* course documents that can be inserted in one behaviour
MaxCourses == 1
\* submissions that can be stored in one behaviour
MaxSubmissions == 1
\* keys one update payload can set
MaxUpdateKeys == 2
\* readings of the clock in one behaviour
MaxClock == 2
\* requests in flight at one time
MaxCalls == 2
\* readings of the clock in one behaviour, the write of an update in flight included
MaxRaceClock == 3
\* how far a course's counter can move from zero
MaxEnrolled == 2
\* user documents that can be inserted in one behaviour
MaxUsers == 2

----------------------------------------------------------------------------
(* Identifier values: bson.ObjectId and Python str *)

CourseHexSeq == <<"c1", "c2", "c3", "c4">>
CourseHex == {CourseHexSeq[i] : i \in 1..MaxCourses}
TenantHex == {"n1", "n2"}
TeacherHex == {"t1", "t2", "t3"}
StudentHex == {"s1", "s2"}
QuizHex == {"q1"}

\* every 12-byte value the model names, by its lower-case hex spelling;
\* "n9", "t9", "s9" name documents that do not exist
AllHex == CourseHex \cup TenantHex \cup TeacherHex \cup StudentHex \cup QuizHex
              \cup {"n9", "t9", "s9"}

\* a Python str: hex names the 24 digits (or a text that is no hex at all),
\* upper tells that the digits a-f are written in upper case
Str(h, u) == [kind |-> "str", hex |-> h, upper |-> u]
\* a bson.ObjectId: twelve bytes, no spelling
Oid(h) == [kind |-> "ObjectId", hex |-> h, upper |-> FALSE]

Lower(h) == Str(h, FALSE)
Upper(h) == Str(h, TRUE)
\* texts that are not 24 hex digits
BadStr == Str("not-an-id", FALSE)
EmptyStr == Str("", FALSE)
PlaceholderStr == Str("string", FALSE)
\* Python None
NoneVal == [kind |-> "None", hex |-> "", upper |-> FALSE]
\* the truth value of an identifier: None and "" are false
Truthy(v) == v # NoneVal /\ v # EmptyStr

\* ObjectId.is_valid: an ObjectId, or a str of 24 hex digits of either case
is_valid(v) == v.hex \in AllHex

\* ObjectId(v): bytes.fromhex ignores the case of the digits
ObjectId(v) == Oid(v.hex)

\* str(v): an ObjectId prints in lower case, a str is itself
str(v) == IF v.kind = "ObjectId" THEN Str(v.hex, FALSE) ELSE v

----------------------------------------------------------------------------
(* The store *)

\* find_one({"_id": id}) on a collection keyed by ObjectId _id
HasDoc(coll, id) == id.kind = "ObjectId" /\ id.hex \in DOMAIN coll

\* the lookup without its tenantId filter
HasDocInAnyTenant(coll, id, tenant) == HasDoc(coll, id)

\* find_one({"_id": id, "tenantId": tenant})
HasDocInTenant(coll, id, tenant) ==
    HasDoc(coll, id) /\ coll[id.hex].tenantId = tenant

\* teachers.update_one({"_id": id}, {"$addToSet": {"assignedCourses": c}})
AddToSetAssigned(ts, id, c) ==
    IF HasDoc(ts, id)
    THEN [ts EXCEPT ![id.hex].assignedCourses = @ \cup {c}]
    ELSE ts

\* teachers.update_one({"_id": id}, {"$pull": {"assignedCourses": c}})
PullAssigned(ts, id, c) ==
    IF HasDoc(ts, id)
    THEN [ts EXCEPT ![id.hex].assignedCourses = @ \ {c}]
    ELSE ts

\* students.update_many({"enrolledCourses": c}, {"$pull": {"enrolledCourses": c}})
PullEnrolledMany(ss, c) ==
    [s \in DOMAIN ss |-> [ss[s] EXCEPT !.enrolledCourses = @ \ {c}]]

\* the function f without the key k (delete_one)
Without(f, k) == [x \in DOMAIN f \ {k} |-> f[x]]

\* the function f with the key k bound to v (insert_one)
With(f, k, v) == [x \in DOMAIN f \cup {k} |-> IF x = k THEN v ELSE f[x]]

Response(op, ok, msg) == [op |-> op, success |-> ok, message |-> msg]

----------------------------------------------------------------------------
(* Initial state: tenants n1, n2; teachers t1, t2 of n1 and t3 of n2;      *)
(* students s1 of n1 and s2 of n2; no course, no quiz.                     *)

TeacherTenant == [t \in TeacherHex |-> IF t = "t3" THEN "n2" ELSE "n1"]
StudentTenant == [s \in StudentHex |-> IF s = "s2" THEN "n2" ELSE "n1"]

Init ==
    /\ courses = [c \in {} |-> 0]
    /\ teachers = [t \in TeacherHex |->
                     [tenantId |-> Oid(TeacherTenant[t]), assignedCourses |-> {}]]
    /\ students = [s \in StudentHex |->
                     [tenantId |-> Oid(StudentTenant[s]), enrolledCourses |-> {}]]
    /\ inserted = 0
    /\ quizzes = [q \in {} |-> 0]
    /\ submissions = <<>>
    /\ now = 0
    /\ calls = <<>>
    /\ users = <<>>
    /\ profiles = <<>>
    /\ assignments = <<>>
    /\ tenants = <<>>
    /\ assignmentSubmissions = <<>>
    /\ modules = [c \in {CourseHexSeq[i] : i \in DOMAIN CourseHexSeq} |-> <<>>]
    /\ last = Response("none", TRUE, "")

----------------------------------------------------------------------------
(* app/crud/courses.py *)

\* request values: a course named in lower-case or upper-case hex, or no id at all
ReqCourseIds == {Lower(c) : c \in CourseHex} \cup {Upper(c) : c \in CourseHex}
                    \cup {BadStr}
ReqTenantIds == {Lower("n1"), Lower("n2")}
\* create_course also looks the tenant up: "n9" is a tenant that does not exist
CreateTenantIds == ReqTenantIds \cup {Lower("n9"), BadStr}
ReqTeacherIds == {Lower(t) : t \in TeacherHex} \cup {Lower("t9"), BadStr}
ReqStudentIds == {Lower(s) : s \in StudentHex} \cup {Lower("s9")}

\* CourseUpdate payloads (exclude_unset): the keys that reach the roster logic
CourseUpdateValues ==
    [teacherId |-> {Lower(t) : t \in TeacherHex} \cup {PlaceholderStr, BadStr},
     tenantId |-> {Lower("n1"), Lower("n2")}]
CourseUpdates ==
    UNION {{u \in [ks -> UNION {CourseUpdateValues[k] : k \in ks}] :
               \A k \in ks : u[k] \in CourseUpdateValues[k]} :
           ks \in SUBSET {"teacherId", "tenantId"}}

\* clean_update_data: drop None, the "string" placeholder and empty strings
\* (an empty thumbnailUrl is kept)
clean_update_data(update_dict) ==
    LET keep(k) ==
            /\ update_dict[k] # NoneVal
            /\ update_dict[k] # PlaceholderStr
            /\ (update_dict[k] = EmptyStr => k = "thumbnailUrl")
    IN [k \in {x \in DOMAIN update_dict : keep(x)} |-> update_dict[k]]

\* enrolled_courses = student.get("enrolledCourses", []); course_id in enrolled_courses:
\* Python compares the request's string with the stored strings, digit case included
already_enrolled(student, course_id) == course_id \in student.enrolledCourses

\* the membership test of unenroll_student left out
not_enrolled_unchecked(student, course_id) == FALSE

\* course_id not in enrolled_courses
not_enrolled(student, course_id) == course_id \notin student.enrolledCourses

create_course(teacherId, tenantId) ==
    LET tenant_id == ObjectId(tenantId)
        teacher_id == ObjectId(teacherId)
        reject(msg) == /\ last' = Response("create_course", FALSE, msg)
                       /\ UNCHANGED courseVars
    IN
    /\ UNCHANGED <<quizVars, calls>>
    /\ IF ~is_valid(tenantId) THEN reject("Invalid or missing tenant ID")
       ELSE IF ~is_valid(teacherId) THEN reject("Invalid teacher ID")
       ELSE IF tenant_id.hex \notin TenantHex THEN reject("Tenant not found")
       ELSE IF ~HasDocInTenant(teachers, teacher_id, tenant_id)
       THEN IF HasDoc(teachers, teacher_id)
            THEN reject("Teacher found but belongs to different tenant")
            ELSE reject("Teacher not found")
       ELSE LET course_id == Oid(CourseHexSeq[inserted + 1])
            IN /\ inserted < MaxCourses
               /\ inserted' = inserted + 1
               /\ courses' = With(courses, course_id.hex,
                                  [tenantId |-> tenant_id,
                                   teacherId |-> teacher_id,
                                   enrolledStudents |-> 0])
               /\ teachers' = AddToSetAssigned(teachers, teacher_id, course_id)
               /\ UNCHANGED students
               /\ last' = Response("create_course", TRUE, "created")
    /\ UNCHANGED <<userVars, tenantVars, modules>>

update_course(course_id, tenantId, course_update) ==
    LET respond(ok, msg) == last' = Response("update_course", ok, msg)
        cleaned_data == clean_update_data(course_update)
    IN
    /\ UNCHANGED <<quizVars, calls>>
    /\ UNCHANGED <<students, inserted>>
    /\ IF \/ ~is_valid(course_id)
          \/ ~is_valid(tenantId)
          \/ ~HasDocInTenant(courses, ObjectId(course_id), ObjectId(tenantId))
       THEN /\ respond(FALSE, "Course not found or belongs to different tenant")
            /\ UNCHANGED <<courses, teachers>>
       ELSE LET existing_course == courses[course_id.hex]
                old_teacher_id == existing_course.teacherId
            IN IF DOMAIN cleaned_data = {}
               THEN /\ respond(TRUE, "no valid updates")
                    /\ UNCHANGED <<courses, teachers>>
               ELSE IF \E k \in DOMAIN cleaned_data : ~is_valid(cleaned_data[k])
               THEN \* ObjectId(...) raises InvalidId before anything is written
                    /\ respond(FALSE, "InvalidId")
                    /\ UNCHANGED <<courses, teachers>>
               ELSE LET has(k) == k \in DOMAIN cleaned_data
                        new_teacher_id == ObjectId(cleaned_data["teacherId"])
                        changed == has("teacherId")
                                     /\ str(old_teacher_id) # str(new_teacher_id)
                        pulled == PullAssigned(teachers, old_teacher_id,
                                               ObjectId(course_id))
                    IN /\ courses' =
                            [courses EXCEPT
                               ![course_id.hex].tenantId =
                                   IF has("tenantId")
                                   THEN ObjectId(cleaned_data["tenantId"]) ELSE @,
                               ![course_id.hex].teacherId =
                                   IF has("teacherId") THEN new_teacher_id ELSE @]
                       /\ teachers' =
                            IF changed
                            THEN AddToSetAssigned(pulled, new_teacher_id,
                                                  ObjectId(course_id))
                            ELSE teachers
                       /\ respond(TRUE, "updated")
    /\ UNCHANGED <<userVars, tenantVars, modules>>

delete_course(course_id, tenantId) ==
    LET reject(msg) == /\ last' = Response("delete_course", FALSE, msg)
                       /\ UNCHANGED courseVars
    IN
    /\ UNCHANGED <<quizVars, calls>>
    /\ IF ~is_valid(course_id) THEN reject("Invalid course ID format")
       ELSE IF ~is_valid(tenantId) THEN reject("Invalid tenant ID format")
       ELSE LET course_obj_id == ObjectId(course_id)
                tenant_obj_id == ObjectId(tenantId)
            IN IF ~HasDocInTenant(courses, course_obj_id, tenant_obj_id)
               THEN IF HasDoc(courses, course_obj_id)
                    THEN reject("Course found but belongs to different tenant")
                    ELSE reject("Course not found")
               ELSE LET teacher_id == ObjectId(courses[course_obj_id.hex].teacherId)
                    IN /\ courses' = Without(courses, course_obj_id.hex)
                       /\ teachers' = PullAssigned(teachers, teacher_id, course_obj_id)
                       \* the students' lists are matched on the request's string
                       /\ students' = PullEnrolledMany(students, course_id)
                       /\ UNCHANGED inserted
                       /\ last' = Response("delete_course", TRUE,
                                           "Course deleted successfully")
    /\ UNCHANGED <<userVars, tenantVars, modules>>

\* the HTTP status the update_course and delete_course routes answer with
course_route_status(r) ==
    IF r.op = "update_course"
    THEN (IF r.message = "InvalidId" THEN 500
          ELSE IF ~r.success THEN 404
          ELSE 200)
    ELSE (IF r.success THEN 204
          ELSE IF r.message \in {"Invalid course ID format", "Invalid tenant ID format"}
          THEN 400
          ELSE IF r.message \in {"Course not found",
                                 "Course found but belongs to different tenant"}
          THEN 404
          ELSE 400)

enroll_student(course_id, student_id, tenantId) ==
    LET reject(msg) == /\ last' = Response("enroll_student", FALSE, msg)
                       /\ UNCHANGED courseVars
    IN
    /\ UNCHANGED <<quizVars, calls>>
    /\ IF ~is_valid(course_id) THEN reject("Invalid course ID format")
       ELSE IF ~is_valid(student_id) THEN reject("Invalid student ID format")
       ELSE IF ~is_valid(tenantId) THEN reject("Invalid tenant ID format")
       ELSE LET tenant_object_id == ObjectId(tenantId)
            IN IF ~HasDocInTenant(courses, ObjectId(course_id), tenant_object_id)
               THEN IF HasDoc(courses, ObjectId(course_id))
                    THEN reject("Course found but belongs to different tenant")
                    ELSE reject("Course not found")
               ELSE IF ~HasDocInTenant(students, ObjectId(student_id), tenant_object_id)
               THEN IF HasDoc(students, ObjectId(student_id))
                    THEN reject("Student found but belongs to different tenant")
                    ELSE reject("Student not found")
               ELSE IF already_enrolled(students[student_id.hex], course_id)
               THEN reject("Student is already enrolled in this course")
               ELSE /\ students' = [students EXCEPT
                                      ![student_id.hex].enrolledCourses = @ \cup {course_id}]
                    /\ courses' = [courses EXCEPT
                                     ![course_id.hex].enrolledStudents = @ + 1]
                    /\ UNCHANGED <<teachers, inserted>>
                    /\ last' = Response("enroll_student", TRUE,
                                        "Successfully enrolled in course")
    /\ UNCHANGED <<userVars, tenantVars, modules>>

unenroll_student(course_id, student_id, tenantId) ==
    LET reject(msg) == /\ last' = Response("unenroll_student", FALSE, msg)
                       /\ UNCHANGED courseVars
    IN
    /\ UNCHANGED <<quizVars, calls>>
    /\ IF ~is_valid(course_id) THEN reject("Invalid course ID format")
       ELSE IF ~is_valid(student_id) THEN reject("Invalid student ID format")
       ELSE IF ~is_valid(tenantId) THEN reject("Invalid tenant ID format")
       ELSE LET tenant_object_id == ObjectId(tenantId)
            IN IF ~HasDocInTenant(courses, ObjectId(course_id), tenant_object_id)
               THEN IF HasDoc(courses, ObjectId(course_id))
                    THEN reject("Course found but belongs to different tenant")
                    ELSE reject("Course not found")
               ELSE IF ~HasDocInTenant(students, ObjectId(student_id), tenant_object_id)
               THEN IF HasDoc(students, ObjectId(student_id))
                    THEN reject("Student found but belongs to different tenant")
                    ELSE reject("Student not found")
               ELSE IF not_enrolled(students[student_id.hex], course_id)
               THEN reject("Student is not enrolled in this course")
               ELSE /\ students' = [students EXCEPT
                                      ![student_id.hex].enrolledCourses = @ \ {course_id}]
                    /\ courses' = [courses EXCEPT
                                     ![course_id.hex].enrolledStudents = @ - 1]
                    /\ UNCHANGED <<teachers, inserted>>
                    /\ last' = Response("unenroll_student", TRUE,
                                        "Successfully unenrolled from course")
    /\ UNCHANGED <<userVars, tenantVars, modules>>

----------------------------------------------------------------------------
(* app/routers/admins.py: the admin panel's course endpoints *)

\* PATCH /admin/courses/{course_id}: the body is $set as it arrived, so an id in
\* it is stored as the string the client sent
AdminCourseData == {[teacherId |-> Lower("t1")]}

admin_update_course(course_id, data) ==
    LET respond(ok, msg) == last' = Response("admin_update_course", ok, msg)
    IN
    /\ UNCHANGED <<quizVars, calls>>
    /\ UNCHANGED <<teachers, students, inserted>>
    /\ IF ~is_valid(course_id)
       THEN /\ respond(FALSE, "InvalidId") /\ UNCHANGED courses
       ELSE IF ~HasDoc(courses, ObjectId(course_id))
       THEN /\ respond(FALSE, "Course not found") /\ UNCHANGED courses
       ELSE /\ courses' = [courses EXCEPT ![course_id.hex].teacherId = data.teacherId]
            /\ respond(TRUE, "updated")
    /\ UNCHANGED <<userVars, tenantVars, modules>>

\* DELETE /admin/courses/{course_id}
admin_delete_course(course_id) ==
    LET respond(ok, msg) == last' = Response("admin_delete_course", ok, msg)
    IN
    /\ UNCHANGED <<quizVars, calls>>
    /\ UNCHANGED <<teachers, students, inserted>>
    /\ IF ~is_valid(course_id)
       THEN /\ respond(FALSE, "InvalidId") /\ UNCHANGED courses
       ELSE IF ~HasDoc(courses, ObjectId(course_id))
       THEN /\ respond(FALSE, "Course not found") /\ UNCHANGED courses
       ELSE /\ courses' = Without(courses, course_id.hex)
            /\ respond(TRUE, "Course deleted successfully")
    /\ UNCHANGED <<userVars, tenantVars, modules>>

---------------------------------------------------------------------------------------------------------------------------------------------------
(* Requests, one at a time.  Every action is the whole handler; the       *)
(* specifications differ in the requests the clients send.                 *)

\* the owners the enrollment requests' courses are created with
RosterTeacherIds == {Lower("t1"), Lower("t3")}

\* Enrollment: courses of both tenants are created and deleted (both routes)
\* while students enroll and unenroll
Next ==
    \/ \E t \in RosterTeacherIds, n \in ReqTenantIds : create_course(t, n)
    \/ \E c \in ReqCourseIds, n \in ReqTenantIds : delete_course(c, n)
    \/ \E c \in ReqCourseIds, s \in ReqStudentIds, n \in ReqTenantIds :
          enroll_student(c, s, n)
    \/ \E c \in ReqCourseIds, s \in ReqStudentIds, n \in ReqTenantIds :
          unenroll_student(c, s, n)
    \/ \E c \in ReqCourseIds : admin_delete_course(c)

Spec == Init /\ [][Next]_vars

\* Ownership: courses are created, updated (owner and tenant), deleted through
\* the course routes and the admin routes
NextCourse ==
    \/ \E t \in ReqTeacherIds, n \in CreateTenantIds : create_course(t, n)
    \/ \E c \in ReqCourseIds, n \in ReqTenantIds, u \in CourseUpdates :
          update_course(c, n, u)
    \/ \E c \in ReqCourseIds, n \in ReqTenantIds : delete_course(c, n)
    \/ \E c \in ReqCourseIds, d \in AdminCourseData : admin_update_course(c, d)
    \/ \E c \in ReqCourseIds : admin_delete_course(c)

CourseSpec == Init /\ [][NextCourse]_vars

----------------------------------------------------------------------------
(* app/schemas/quizzes.py, app/routers/quizzes.py, app/crud/quizzes.py *)

\* Python None, as a field value
None == "None"
\* the updatedAt of a quiz that was never updated (None): the clock starts
\* after it
NoTime == 0

\* the fields a QuizUpdate body can carry
QuizFields == {"quizNumber", "description", "dueDate", "questions",
               "timeLimitMinutes", "totalMarks", "aiGenerated", "status"}
\* fields listed as updatable whatever the submissions
allowed_always == {"description", "dueDate", "status", "timeLimitMinutes",
                   "aiGenerated"}
\* fields that are updated only while no submission exists
restricted_fields == {"questions", "totalMarks", "quizNumber"}

\* request values: a field is absent from the body, or carries a new value
\* "v1" different from the value "v0" the quiz was created with; the
\* description can also be null or the empty string, the questions null
QuizBodyValues(k) ==
    IF k = "description" THEN {None, "", "v1"}
    ELSE IF k = "questions" THEN {None, "v1"}
    ELSE {"v1"}
QuizBodies ==
    UNION {{b \in [ks -> {None, "", "v1"}] : \A k \in ks : b[k] \in QuizBodyValues(k)} :
             ks \in {s \in SUBSET QuizFields : Cardinality(s) <= MaxUpdateKeys}}
ReqQuizIds == {Lower(q) : q \in QuizHex} \cup {BadStr}
QuizTeacherIds == {Lower("t1"), Lower("t2")}
CreateQuizTeacherIds == {Lower("t1"), BadStr}

\* QuizUpdate.convert_empty_strings followed by model_dump(exclude_unset=True)
convert_empty_strings(data) ==
    [k \in DOMAIN data |-> IF data[k] = "" THEN None ELSE data[k]]

\* a value update_quiz does not skip
Supplied(val) == val # None /\ val # ""

\* db.quizSubmissions.count_documents({"quizId": quizId})
count_documents(quizId) ==
    Cardinality({i \in 1..Len(submissions) : submissions[i].quizId = quizId})

\* the loop without the lock: restricted fields are written whatever the
\* submissions
safe_updates_without_lock(updates, has_submissions) ==
    [k \in {x \in DOMAIN updates : Supplied(updates[x])} |-> updates[k]]

\* the loop with a lock that discards the whole payload when it holds a
\* restricted field
safe_updates_all_or_nothing(updates, has_submissions) ==
    [k \in {x \in DOMAIN updates :
              /\ Supplied(updates[x])
              /\ ~(has_submissions /\ \E y \in DOMAIN updates :
                                        Supplied(updates[y]) /\ y \in restricted_fields)}
       |-> updates[k]]

\* the loop of update_quiz that builds safe_updates from the payload
safe_updates(updates, has_submissions) ==
    [k \in {x \in DOMAIN updates :
              /\ Supplied(updates[x])
              /\ ~(has_submissions /\ x \in restricted_fields)} |-> updates[k]]

\* the part of a payload that carries values
supplied_fields(body) ==
    [k \in {x \in DOMAIN body : Supplied(body[x])} |-> body[k]]

\* update_one(..., {"$set": upd}) on one document
Set(doc, upd) ==
    [k \in DOMAIN doc \cup DOMAIN upd |-> IF k \in DOMAIN upd THEN upd[k] ELSE doc[k]]

\* an update_quiz request and its response: the quiz and the teacher the
\* request names and the values its body supplies
QuizResponse(op, ok, msg, _id, teacherId, body) ==
    [op |-> op, success |-> ok, message |-> msg,
     _id |-> _id, teacherId |-> teacherId, supplied |-> supplied_fields(body)]

\* the permission check left out: every teacher passes
is_owner_unchecked(quiz, teacherId) == TRUE

\* the permission check of update_quiz and delete_quiz:
\* str(quiz["teacherId"]) against the teacher id of the request
is_owner(quiz, teacherId) == str(quiz.teacherId) = str(teacherId)

\* POST /quizzes/ : create_quiz_route, create_quiz
create_quiz(courseId, teacherId, tenantId) ==
    /\ QuizHex \ DOMAIN quizzes # {}
    /\ now < MaxClock
    /\ IF ~is_valid(courseId) \/ ~is_valid(teacherId) \/ ~is_valid(tenantId)
       THEN /\ last' = Response("create_quiz", FALSE, "Invalid ID format provided")
            /\ UNCHANGED quizVars
       ELSE LET _id == CHOOSE q \in QuizHex : q \notin DOMAIN quizzes
                data == [courseId |-> ObjectId(courseId),
                         teacherId |-> ObjectId(teacherId),
                         tenantId |-> ObjectId(tenantId),
                         quizNumber |-> "v0", description |-> "v0",
                         dueDate |-> "v0", questions |-> "v0",
                         timeLimitMinutes |-> "v0", totalMarks |-> "v0",
                         aiGenerated |-> "v0",
                         status |-> "active",
                         createdAt |-> now + 1,
                         updatedAt |-> NoTime,
                         isDeleted |-> FALSE,
                         deletedAt |-> NoTime]
            IN /\ now' = now + 1
               /\ quizzes' = With(quizzes, _id, data)
               /\ UNCHANGED submissions
               /\ last' = Response("create_quiz", TRUE, "created")
    /\ UNCHANGED <<courseVars, calls>>
    /\ UNCHANGED <<userVars, tenantVars, modules>>

\* PATCH /quizzes/{quiz_id}?teacher_id= : update_quiz_route, update_quiz
update_quiz(_id, teacherId, body) ==
    /\ IF ~is_valid(_id) \/ ~is_valid(teacherId)
       THEN /\ last' = QuizResponse("update_quiz", FALSE, "Invalid ID format provided",
                                    _id, teacherId, body)
            /\ UNCHANGED quizVars
       ELSE IF ~(HasDoc(quizzes, ObjectId(_id)) /\ ~quizzes[_id.hex].isDeleted)
       THEN /\ last' = QuizResponse("update_quiz", FALSE, "Quiz not found",
                                    _id, teacherId, body)
            /\ UNCHANGED quizVars
       ELSE IF ~is_owner(quizzes[_id.hex], teacherId)
       THEN /\ last' = QuizResponse("update_quiz", FALSE, "Unauthorized",
                                    _id, teacherId, body)
            /\ UNCHANGED quizVars
       ELSE LET updates == convert_empty_strings(body)
                submission_count == count_documents(ObjectId(_id))
                has_submissions == submission_count > 0
                safe == safe_updates(updates, has_submissions)
            IN /\ now < MaxClock
               /\ now' = now + 1
               /\ quizzes' = [quizzes EXCEPT ![_id.hex] =
                                Set(@, safe @@ [updatedAt |-> now + 1])]
               /\ UNCHANGED submissions
               /\ last' = QuizResponse("update_quiz", TRUE, "updated",
                                       _id, teacherId, body)
    /\ UNCHANGED <<courseVars, calls>>
    /\ UNCHANGED <<userVars, tenantVars, modules>>

\* a delete that only flags the quiz
soft_delete_flag_only(time) == [isDeleted |-> TRUE]

\* the $set of delete_quiz
soft_delete(time) == [isDeleted |-> TRUE, deletedAt |-> time, updatedAt |-> time]

\* DELETE /quizzes/{quiz_id}?teacher_id= : delete_quiz_route, delete_quiz
delete_quiz(_id, teacherId) ==
    /\ IF ~is_valid(_id) \/ ~is_valid(teacherId)
       THEN /\ last' = Response("delete_quiz", FALSE, "Invalid ID format provided")
            /\ UNCHANGED quizVars
       ELSE IF ~(HasDoc(quizzes, ObjectId(_id)) /\ ~quizzes[_id.hex].isDeleted)
       THEN /\ last' = Response("delete_quiz", FALSE, "Quiz not found")
            /\ UNCHANGED quizVars
       ELSE IF ~is_owner(quizzes[_id.hex], teacherId)
       THEN /\ last' = Response("delete_quiz", FALSE, "Unauthorized")
            /\ UNCHANGED quizVars
       ELSE /\ now < MaxClock
            /\ now' = now + 1
            /\ quizzes' = [quizzes EXCEPT ![_id.hex] = Set(@, soft_delete(now + 1))]
            /\ UNCHANGED submissions
            /\ last' = Response("delete_quiz", TRUE, "Quiz deleted successfully")
    /\ UNCHANGED <<courseVars, calls>>
    /\ UNCHANGED <<userVars, tenantVars, modules>>

\* a student submits answers to a quiz: one document is stored in
\* db.quizSubmissions with the quiz's _id as quizId
create_quiz_submission(quizId) ==
    /\ Len(submissions) < MaxSubmissions
    /\ is_valid(quizId)
    /\ HasDoc(quizzes, ObjectId(quizId))
    /\ ~quizzes[quizId.hex].isDeleted
    /\ submissions' = Append(submissions, [quizId |-> ObjectId(quizId)])
    /\ last' = Response("create_quiz_submission", TRUE, "created")
    /\ UNCHANGED <<quizzes, now>>
    /\ UNCHANGED <<courseVars, calls>>
    /\ UNCHANGED <<userVars, tenantVars, modules>>

\* GET /quizzes/{quiz_id} : the quiz found, or None
get_quiz(_id) ==
    IF is_valid(_id) /\ HasDoc(quizzes, ObjectId(_id)) /\ ~quizzes[_id.hex].isDeleted
    THEN _id.hex ELSE None

\* GET /quizzes?teacherId= : the ids listed; NoneVal stands for no filter
get_quizzes_filtered(teacherId) ==
    {q \in DOMAIN quizzes :
        /\ ~quizzes[q].isDeleted
        /\ teacherId # NoneVal => quizzes[q].teacherId = ObjectId(teacherId)}

\* the quiz query of get_student_quizzes for the courses a student lists
get_student_quizzes(course_ids, tenant_oid) ==
    {q \in DOMAIN quizzes :
        /\ quizzes[q].courseId \in course_ids
        /\ quizzes[q].tenantId = tenant_oid
        /\ ~quizzes[q].isDeleted
        /\ quizzes[q].status = "active"}

\* GET /teachers/{teacher_id}/quizzes : the ids listed
get_teacher_quizzes_route(teacher_id) ==
    {q \in DOMAIN quizzes : quizzes[q].teacherId = ObjectId(teacher_id)}

\* the HTTP status update_quiz_route and delete_quiz_route answer with
quiz_route_status(r) ==
    IF r.message = "Invalid ID format provided" THEN 400
    ELSE IF r.message = "Unauthorized" THEN 401
    ELSE IF r.message = "Quiz not found" THEN 404
    ELSE 200

\* the body of the update requests that name no quiz or another teacher
DescriptionBody == [k \in {"description"} |-> "v1"]

\* Quizzes: a teacher creates, edits and deletes quizzes while students
\* submit; the creating teacher sends every body, and one body is sent with
\* every quiz id and teacher id
NextQuiz ==
    \/ \E t \in CreateQuizTeacherIds : create_quiz(Lower("c1"), t, Lower("n1"))
    \/ \E q \in QuizHex, b \in QuizBodies : update_quiz(Lower(q), Lower("t1"), b)
    \/ \E q \in ReqQuizIds, t \in QuizTeacherIds : update_quiz(q, t, DescriptionBody)
    \/ \E q \in ReqQuizIds, t \in QuizTeacherIds : delete_quiz(q, t)
    \/ \E q \in ReqQuizIds : create_quiz_submission(q)

QuizSpec == Init /\ [][NextQuiz]_vars

----------------------------------------------------------------------------
(* update_quiz, one store operation at a time: every await of the handler  *)
(* is a point where other requests run.                                    *)

\* the sequence without its i-th element
RemoveAt(seq, i) == SubSeq(seq, 1, i - 1) \o SubSeq(seq, i + 1, Len(seq))

\* update_quiz_route and update_quiz up to the permission check: the ids are
\* validated, the quiz is read, the teacher is compared
update_quiz_find(_id, teacherId, body) ==
    /\ Len(calls) < MaxCalls
    /\ IF ~is_valid(_id) \/ ~is_valid(teacherId)
       THEN /\ last' = QuizResponse("update_quiz", FALSE, "Invalid ID format provided",
                                    _id, teacherId, body)
            /\ UNCHANGED calls
       ELSE IF ~(HasDoc(quizzes, ObjectId(_id)) /\ ~quizzes[_id.hex].isDeleted)
       THEN /\ last' = QuizResponse("update_quiz", FALSE, "Quiz not found",
                                    _id, teacherId, body)
            /\ UNCHANGED calls
       ELSE IF ~is_owner(quizzes[_id.hex], teacherId)
       THEN /\ last' = QuizResponse("update_quiz", FALSE, "Unauthorized",
                                    _id, teacherId, body)
            /\ UNCHANGED calls
       ELSE /\ calls' = Append(calls, [op |-> "update_quiz", pc |-> "count",
                                       _id |-> _id, teacherId |-> teacherId,
                                       body |-> body,
                                       updates |-> convert_empty_strings(body)])
            /\ last' = Response("update_quiz_find", TRUE, "in flight")
    /\ UNCHANGED <<quizVars, courseVars>>
    /\ UNCHANGED <<userVars, tenantVars, modules>>

\* update_quiz: the submissions are counted and safe_updates is built
update_quiz_count(i) ==
    /\ calls[i].op = "update_quiz"
    /\ calls[i].pc = "count"
    /\ LET has_submissions == count_documents(ObjectId(calls[i]._id)) > 0
           safe == safe_updates(calls[i].updates, has_submissions)
       IN calls' = [calls EXCEPT ![i] =
                      [op |-> "update_quiz", pc |-> "write", _id |-> calls[i]._id,
                       teacherId |-> calls[i].teacherId, body |-> calls[i].body,
                       updates |-> safe]]
    /\ last' = Response("update_quiz_count", TRUE, "in flight")
    /\ UNCHANGED <<quizVars, courseVars>>
    /\ UNCHANGED <<userVars, tenantVars, modules>>

\* update_quiz: the clock is read, safe_updates is written to the document
\* with the quiz's _id, the document is read back and returned
update_quiz_write(i) ==
    /\ calls[i].op = "update_quiz"
    /\ calls[i].pc = "write"
    /\ now < MaxRaceClock
    /\ now' = now + 1
    /\ quizzes' = [quizzes EXCEPT ![calls[i]._id.hex] =
                     Set(@, calls[i].updates @@ [updatedAt |-> now + 1])]
    /\ calls' = RemoveAt(calls, i)
    /\ last' = QuizResponse("update_quiz", TRUE, "updated",
                            calls[i]._id, calls[i].teacherId, calls[i].body)
    /\ UNCHANGED submissions
    /\ UNCHANGED courseVars
    /\ UNCHANGED <<userVars, tenantVars, modules>>

\* the bodies of the interleaved updates: questions and description
RaceBodies == {b \in QuizBodies : DOMAIN b \subseteq {"questions", "description"}}

\* Quizzes under interleaving: updates run step by step while quizzes are
\* created and deleted and students submit
NextQuizRace ==
    \/ \E t \in CreateQuizTeacherIds : create_quiz(Lower("c1"), t, Lower("n1"))
    \/ \E q \in ReqQuizIds, t \in QuizTeacherIds, b \in RaceBodies :
          update_quiz_find(q, t, b)
    \/ \E i \in DOMAIN calls : update_quiz_count(i)
    \/ \E i \in DOMAIN calls : update_quiz_write(i)
    \/ \E q \in ReqQuizIds, t \in QuizTeacherIds : delete_quiz(q, t)
    \/ \E q \in ReqQuizIds : create_quiz_submission(q)

QuizRaceSpec == Init /\ [][NextQuizRace]_vars

----------------------------------------------------------------------------
(* enroll_student and unenroll_student, one store operation at a time.     *)

\* the in-flight calls of operation op
InFlight(op) == Cardinality({i \in DOMAIN calls : calls[i].op = op})

\* a counter write that writes nothing
inc_dropped(doc, n) == doc

\* {"$inc": {"enrolledStudents": n}}
inc_enrolledStudents(doc, n) == [doc EXCEPT !.enrolledStudents = @ + n]

\* enroll_student and unenroll_student up to the course lookup: the ids are
\* validated and the course is read in the tenant
enrollment_find(op, course_id, student_id, tenantId) ==
    LET reject(msg) == /\ last' = Response(op, FALSE, msg)
                       /\ UNCHANGED calls
    IN
    /\ Len(calls) < MaxCalls
    /\ \A c \in DOMAIN courses :
          IF op = "enroll_student"
          THEN courses[c].enrolledStudents + InFlight(op) < MaxEnrolled
          ELSE courses[c].enrolledStudents - InFlight(op) > -MaxEnrolled
    /\ IF ~is_valid(course_id) THEN reject("Invalid course ID format")
       ELSE IF ~is_valid(student_id) THEN reject("Invalid student ID format")
       ELSE IF ~is_valid(tenantId) THEN reject("Invalid tenant ID format")
       ELSE IF ~HasDocInTenant(courses, ObjectId(course_id), ObjectId(tenantId))
       THEN IF HasDoc(courses, ObjectId(course_id))
            THEN reject("Course found but belongs to different tenant")
            ELSE reject("Course not found")
       ELSE /\ calls' = Append(calls, [op |-> op, pc |-> "student",
                                       course_id |-> course_id,
                                       student_id |-> student_id,
                                       tenantId |-> tenantId])
            /\ last' = Response("enrollment_find", TRUE, "in flight")
    /\ UNCHANGED <<courseVars, quizVars>>
    /\ UNCHANGED <<userVars, tenantVars, modules>>

\* the student is read in the tenant and the list that was read is tested
enrollment_read(i) ==
    LET call == calls[i]
        reject(msg) == /\ last' = Response(call.op, FALSE, msg)
                       /\ calls' = RemoveAt(calls, i)
    IN
    /\ call.op \in {"enroll_student", "unenroll_student"}
    /\ call.pc = "student"
    /\ IF ~HasDocInTenant(students, ObjectId(call.student_id), ObjectId(call.tenantId))
       THEN IF HasDoc(students, ObjectId(call.student_id))
            THEN reject("Student found but belongs to different tenant")
            ELSE reject("Student not found")
       ELSE IF call.op = "enroll_student"
               /\ already_enrolled(students[call.student_id.hex], call.course_id)
       THEN reject("Student is already enrolled in this course")
       ELSE IF call.op = "unenroll_student"
               /\ not_enrolled(students[call.student_id.hex], call.course_id)
       THEN reject("Student is not enrolled in this course")
       ELSE /\ calls' = [calls EXCEPT ![i].pc = "list"]
            /\ last' = Response("enrollment_read", TRUE, "in flight")
    /\ UNCHANGED <<courseVars, quizVars>>
    /\ UNCHANGED <<userVars, tenantVars, modules>>

\* Update 1: $addToSet or $pull on the student of the tenant
enrollment_list(i) ==
    LET call == calls[i]
        s == call.student_id.hex
    IN
    /\ call.op \in {"enroll_student", "unenroll_student"}
    /\ call.pc = "list"
    /\ IF HasDocInTenant(students, ObjectId(call.student_id), ObjectId(call.tenantId))
       THEN students' = [students EXCEPT ![s].enrolledCourses =
                           IF call.op = "enroll_student"
                           THEN @ \cup {call.course_id}
                           ELSE @ \ {call.course_id}]
       ELSE UNCHANGED students
    /\ calls' = [calls EXCEPT ![i].pc = "counter"]
    /\ last' = Response("enrollment_list", TRUE, "in flight")
    /\ UNCHANGED <<courses, teachers, inserted, quizVars>>
    /\ UNCHANGED <<userVars, tenantVars, modules>>

\* Update 2: $inc on the course of the tenant; the call answers
enrollment_counter(i) ==
    LET call == calls[i]
        c == call.course_id.hex
    IN
    /\ call.op \in {"enroll_student", "unenroll_student"}
    /\ call.pc = "counter"
    /\ IF HasDocInTenant(courses, ObjectId(call.course_id), ObjectId(call.tenantId))
       THEN courses' = [courses EXCEPT ![c] =
                          inc_enrolledStudents(@, IF call.op = "enroll_student"
                                                  THEN 1 ELSE -1)]
       ELSE UNCHANGED courses
    /\ calls' = RemoveAt(calls, i)
    /\ last' = Response(call.op, TRUE,
                        IF call.op = "enroll_student"
                        THEN "Successfully enrolled in course"
                        ELSE "Successfully unenrolled from course")
    /\ UNCHANGED <<students, teachers, inserted, quizVars>>
    /\ UNCHANGED <<userVars, tenantVars, modules>>

\* the ids of the interleaved requests: every course, both students
RaceCourseIds == {Lower(c) : c \in CourseHex}
RaceStudentIds == {Lower(s) : s \in StudentHex}

\* Enrollment under interleaving: a teacher of n1 creates courses while
\* enroll and unenroll requests of tenant n1 run step by step
NextEnrollRace ==
    \/ create_course(Lower("t1"), Lower("n1"))
    \/ \E op \in {"enroll_student", "unenroll_student"},
          c \in RaceCourseIds, s \in RaceStudentIds :
          enrollment_find(op, c, s, Lower("n1"))
    \/ \E i \in DOMAIN calls : enrollment_read(i)
    \/ \E i \in DOMAIN calls : enrollment_list(i)
    \/ \E i \in DOMAIN calls : enrollment_counter(i)

EnrollRaceSpec == Init /\ [][NextEnrollRace]_vars

----------------------------------------------------------------------------
(* delete_course and the owner reassignment of update_course, one store    *)
(* write at a time, for a client that sends one request at a time: a       *)
(* request may stop between two of its writes (the store or the process    *)
(* fails; nothing is rolled back) and may be sent again.                   *)

\* a request of the client
Request(op, course_id, tenantId, teacherId) ==
    [op |-> op, course_id |-> course_id, tenantId |-> tenantId, teacherId |-> teacherId]

\* the answer to a request
Answer(request, ok, msg) ==
    [op |-> request.op, success |-> ok, message |-> msg, request |-> request]

\* delete_course up to the course lookup
delete_course_find(course_id, tenantId) ==
    LET request == Request("delete_course", course_id, tenantId, NoneVal)
        reject(msg) == /\ last' = Answer(request, FALSE, msg)
                       /\ UNCHANGED calls
    IN
    /\ calls = <<>>
    /\ IF ~is_valid(course_id) THEN reject("Invalid course ID format")
       ELSE IF ~is_valid(tenantId) THEN reject("Invalid tenant ID format")
       ELSE IF ~HasDocInTenant(courses, ObjectId(course_id), ObjectId(tenantId))
       THEN IF HasDoc(courses, ObjectId(course_id))
            THEN reject("Course found but belongs to different tenant")
            ELSE reject("Course not found")
       ELSE /\ calls' = <<[op |-> "delete_course", pc |-> "delete",
                           request |-> request,
                           teacher_id |-> courses[course_id.hex].teacherId]>>
            /\ UNCHANGED last
    /\ UNCHANGED <<courseVars, quizVars>>
    /\ UNCHANGED <<userVars, tenantVars, modules>>

\* delete_one on the course of the tenant
delete_course_delete(i) ==
    LET call == calls[i]
        course_obj_id == ObjectId(call.request.course_id)
    IN
    /\ call.op = "delete_course"
    /\ call.pc = "delete"
    /\ IF HasDocInTenant(courses, course_obj_id, ObjectId(call.request.tenantId))
       THEN /\ courses' = Without(courses, course_obj_id.hex)
            /\ calls' = [calls EXCEPT ![i].pc = "teacher"]
            /\ UNCHANGED last
       ELSE /\ UNCHANGED courses
            /\ calls' = RemoveAt(calls, i)
            /\ last' = Answer(call.request, FALSE, "Failed to delete course")
    /\ UNCHANGED <<teachers, students, inserted, quizVars>>
    /\ UNCHANGED <<userVars, tenantVars, modules>>

\* $pull of the course from the teacher that was read
delete_course_teacher(i) ==
    LET call == calls[i]
    IN
    /\ call.op = "delete_course"
    /\ call.pc = "teacher"
    /\ teachers' = PullAssigned(teachers, ObjectId(call.teacher_id),
                                ObjectId(call.request.course_id))
    /\ calls' = [calls EXCEPT ![i].pc = "students"]
    /\ UNCHANGED <<courses, students, inserted, last, quizVars>>
    /\ UNCHANGED <<userVars, tenantVars, modules>>

\* $pull of the course id string from every student; the call answers
delete_course_students(i) ==
    LET call == calls[i]
    IN
    /\ call.op = "delete_course"
    /\ call.pc = "students"
    /\ students' = PullEnrolledMany(students, call.request.course_id)
    /\ calls' = RemoveAt(calls, i)
    /\ last' = Answer(call.request, TRUE, "Course deleted successfully")
    /\ UNCHANGED <<courses, teachers, inserted, quizVars>>
    /\ UNCHANGED <<userVars, tenantVars, modules>>

\* update_course with a teacherId in the body, up to the course lookup
update_course_find(course_id, tenantId, teacherId) ==
    LET request == Request("update_course", course_id, tenantId, teacherId)
    IN
    /\ calls = <<>>
    /\ IF \/ ~is_valid(course_id)
          \/ ~is_valid(tenantId)
          \/ ~HasDocInTenant(courses, ObjectId(course_id), ObjectId(tenantId))
       THEN /\ last' = Answer(request, FALSE,
                              "Course not found or belongs to different tenant")
            /\ UNCHANGED calls
       ELSE /\ calls' = <<[op |-> "update_course", pc |-> "set",
                           request |-> request,
                           teacher_id |-> courses[course_id.hex].teacherId]>>
            /\ UNCHANGED last
    /\ UNCHANGED <<courseVars, quizVars>>
    /\ UNCHANGED <<userVars, tenantVars, modules>>

\* find_one_and_update on the course of the tenant; the teachers are
\* compared and the call answers when they are the same
update_course_set(i) ==
    LET call == calls[i]
        c == call.request.course_id.hex
        new_teacher_id == ObjectId(call.request.teacherId)
    IN
    /\ call.op = "update_course"
    /\ call.pc = "set"
    /\ IF ~HasDocInTenant(courses, ObjectId(call.request.course_id),
                          ObjectId(call.request.tenantId))
       THEN /\ UNCHANGED courses
            /\ calls' = RemoveAt(calls, i)
            /\ last' = Answer(call.request, FALSE,
                              "Course not found or belongs to different tenant")
       ELSE /\ courses' = [courses EXCEPT ![c].teacherId = new_teacher_id]
            /\ IF str(call.teacher_id) # str(new_teacher_id)
               THEN /\ calls' = [calls EXCEPT ![i].pc = "pull"]
                    /\ UNCHANGED last
               ELSE /\ calls' = RemoveAt(calls, i)
                    /\ last' = Answer(call.request, TRUE, "updated")
    /\ UNCHANGED <<teachers, students, inserted, quizVars>>
    /\ UNCHANGED <<userVars, tenantVars, modules>>

\* $pull of the course from the old teacher
update_course_pull(i) ==
    LET call == calls[i]
    IN
    /\ call.op = "update_course"
    /\ call.pc = "pull"
    /\ teachers' = PullAssigned(teachers, call.teacher_id,
                                ObjectId(call.request.course_id))
    /\ calls' = [calls EXCEPT ![i].pc = "add"]
    /\ UNCHANGED <<courses, students, inserted, last, quizVars>>
    /\ UNCHANGED <<userVars, tenantVars, modules>>

\* $addToSet of the course to the new teacher; the call answers
update_course_add(i) ==
    LET call == calls[i]
    IN
    /\ call.op = "update_course"
    /\ call.pc = "add"
    /\ teachers' = AddToSetAssigned(teachers, ObjectId(call.request.teacherId),
                                    ObjectId(call.request.course_id))
    /\ calls' = RemoveAt(calls, i)
    /\ last' = Answer(call.request, TRUE, "updated")
    /\ UNCHANGED <<courses, students, inserted, quizVars>>
    /\ UNCHANGED <<userVars, tenantVars, modules>>

\* the request stops after one of its writes and before the remaining ones
request_stops(i) ==
    /\ calls[i].op \in {"delete_course", "update_course"}
    /\ calls[i].pc \in {"teacher", "students", "pull", "add"}
    /\ calls' = RemoveAt(calls, i)
    /\ last' = [op |-> "stopped", success |-> FALSE, message |-> calls[i].pc,
                request |-> calls[i].request]
    /\ UNCHANGED <<courseVars, quizVars>>
    /\ UNCHANGED <<userVars, tenantVars, modules>>

\* the teachers of tenant n1
RetryTeacherIds == {Lower("t1"), Lower("t2")}

\* Courses of tenant n1 under failures: courses are created, reassigned and
\* deleted one write at a time and students enroll; a request may stop
NextRetry ==
    \/ \E t \in RetryTeacherIds : create_course(t, Lower("n1"))
    \/ \E c \in RaceCourseIds :
          calls = <<>> /\ enroll_student(c, Lower("s1"), Lower("n1"))
    \/ \E c \in RaceCourseIds : delete_course_find(c, Lower("n1"))
    \/ \E i \in DOMAIN calls : delete_course_delete(i)
    \/ \E i \in DOMAIN calls : delete_course_teacher(i)
    \/ \E i \in DOMAIN calls : delete_course_students(i)
    \/ \E c \in RaceCourseIds, t \in RetryTeacherIds :
          update_course_find(c, Lower("n1"), t)
    \/ \E i \in DOMAIN calls : update_course_set(i)
    \/ \E i \in DOMAIN calls : update_course_pull(i)
    \/ \E i \in DOMAIN calls : update_course_add(i)
    \/ \E i \in DOMAIN calls : request_stops(i)

RetrySpec == Init /\ [][NextRetry]_vars

----------------------------------------------------------------------------
(* app/crud/users.py, app/crud/teachers.py, app/crud/admins.py,            *)
(* app/auth/auth_service.py: user accounts and login.  An email address    *)
(* is its spelling: EmailStr keeps the case of the local part, so "a" and  *)
(* "A" before the @ are different strings that str.lower() makes equal.    *)

\* the address with local part l, in lower case or with a capital letter
Email(l, upper) == [local |-> l, upper |-> upper]

\* str.lower()
lower(email) == [email EXCEPT !.upper = FALSE]

\* hash_password: the stored value is not the password
hash_password(password) == <<"hash", password>>

\* verify_password(plain, hashed)
verify_password(password, hashed) == hashed = hash_password(password)

\* create_access_token(claims)
create_access_token(user_id, role, tenant_id) ==
    [user_id |-> user_id, role |-> role, tenant_id |-> tenant_id]

UserEmails == {Email("a", FALSE), Email("a", TRUE), Email("b", FALSE)}
Passwords == {"p1", "p2"}
SignupRoles == {"student", "teacher"}

\* the answer of a route: the HTTP status, the detail, the token issued
HttpAnswer(op, status, detail, email, password, token) ==
    [op |-> op, success |-> status < 400, message |-> detail, status |-> status,
     email |-> email, password |-> password, token |-> token]

\* db.users.find_one({"email": email}): the first document, 0 for none
find_one_email(email) ==
    IF \E i \in DOMAIN users : users[i].email = email
    THEN CHOOSE i \in DOMAIN users :
            /\ users[i].email = email
            /\ \A j \in DOMAIN users : users[j].email = email => i <= j
    ELSE 0

\* get_user_by_email
get_user_by_email(email) == find_one_email(lower(email))

\* the results insert_one of a user document can have: the document is
\* stored (TRUE); a store that declares users.email unique refuses a
\* spelling it already holds with DuplicateKeyError (FALSE)
insert_one_user(email) ==
    {TRUE} \cup (IF find_one_email(email) # 0 THEN {FALSE} ELSE {})

\* the user document of the three create operations
user_doc(email, password, role, tenantId, time) ==
    [email |-> email, password |-> hash_password(password), role |-> role,
     tenantId |-> tenantId, fullName |-> "v0", profileImageURL |-> "v0", status |-> "active",
     createdAt |-> time, updatedAt |-> time, lastLogin |-> FALSE]

\* the teacher document of create_teacher
teacher_doc(userId, tenantId, time) ==
    [collection |-> "teachers", userId |-> userId, tenantId |-> tenantId,
     qualifications |-> "v0",
     subjects |-> "v0", createdAt |-> time, updatedAt |-> time]

\* register_user, create_user: the signup of a user; a tenantId in the
\* payload is stored as an ObjectId
create_user(email, password, role, tenantId) ==
    LET data == user_doc(lower(email), password, role,
                         IF Truthy(tenantId) THEN ObjectId(tenantId) ELSE tenantId,
                         now + 1)
    IN
    /\ Len(users) < MaxUsers
    /\ now < MaxClock
    /\ \E stored \in insert_one_user(data.email) :
          IF Truthy(tenantId) /\ ~is_valid(tenantId)
          THEN /\ UNCHANGED <<users, now>>
               /\ last' = HttpAnswer("create_user", 500, "InvalidId",
                                     email, password, None)
          ELSE IF stored
          THEN /\ users' = Append(users, data)
               /\ now' = now + 1
               /\ last' = HttpAnswer("create_user", 200, "created", email, password, None)
          ELSE /\ UNCHANGED <<users, now>>
               /\ last' = HttpAnswer("create_user", 500, "DuplicateKeyError",
                                     email, password, None)
    /\ UNCHANGED profiles
    /\ UNCHANGED <<courseVars, quizzes, submissions, calls, tenantVars, modules>>

\* POST /teachers/ : create_teacher_route, create_teacher for a tenant
create_teacher(email, password, tenantId) ==
    LET data == user_doc(lower(email), password, "teacher", ObjectId(tenantId), now + 1)
    IN
    /\ Len(users) < MaxUsers
    /\ now < MaxClock
    /\ IF ObjectId(tenantId).hex \notin TenantHex
       THEN /\ last' = HttpAnswer("create_teacher", 404, "Tenant not found",
                                  email, password, None)
            /\ UNCHANGED <<userVars, now>>
       ELSE \E stored \in insert_one_user(data.email) :
              IF stored
              THEN /\ users' = Append(users, data)
                   /\ profiles' = Append(profiles, teacher_doc(Len(users) + 1, ObjectId(tenantId),
                                                               now + 1))
                   /\ now' = now + 1
                   /\ last' = HttpAnswer("create_teacher", 200, "created",
                                         email, password, None)
              ELSE /\ UNCHANGED <<userVars, now>>
                   /\ last' = HttpAnswer("create_teacher", 500, "DuplicateKeyError",
                                         email, password, None)
    /\ UNCHANGED <<courseVars, quizzes, submissions, calls, tenantVars, modules>>

\* POST /admin/signup : signup, create_admin
create_admin(email, password, confirmPassword) ==
    LET data == user_doc(email, password, "admin", NoneVal, now + 1)
    IN
    /\ Len(users) < MaxUsers
    /\ now < MaxClock
    /\ IF find_one_email(email) # 0
       THEN /\ last' = HttpAnswer("create_admin", 400, "Email already registered",
                                  email, password, None)
            /\ UNCHANGED <<userVars, now>>
       ELSE IF password # confirmPassword
       THEN /\ last' = HttpAnswer("create_admin", 400, "Passwords do not match",
                                  email, password, None)
            /\ UNCHANGED <<userVars, now>>
       ELSE /\ users' = Append(users, data)
            /\ profiles' = Append(profiles, [collection |-> "admins",
                                             userId |-> Len(users) + 1,
                                             tenantId |-> NoneVal,
                                             createdAt |-> now + 1,
                                             updatedAt |-> now + 1])
            /\ now' = now + 1
            /\ last' = HttpAnswer("create_admin", 200, "created", email, password, None)
    /\ UNCHANGED <<courseVars, quizzes, submissions, calls, tenantVars, modules>>

\* verify_user: the index of the user with the password, 0 for None
verify_user(email, password) ==
    LET u == get_user_by_email(email)
    IN IF u = 0 \/ ~verify_password(password, users[u].password) THEN 0 ELSE u

\* find_one({"userId": user_id}) in the collection of the role: the first
\* document, 0 for none; students carry no userId
role_doc(role, user_id) ==
    LET collection == IF role = "teacher" THEN "teachers"
                      ELSE IF role = "admin" THEN "admins" ELSE "none"
        found == {i \in DOMAIN profiles : /\ profiles[i].collection = collection
                                         /\ profiles[i].userId = user_id}
    IN IF found = {} THEN 0 ELSE CHOOSE i \in found : \A x \in found : i <= x

\* str(x) if x else None
str_or_None(x) == IF Truthy(x) THEN str(x) ELSE NoneVal

\* verify_user, serialize_user: the tenantId of the user that logs in; the
\* tenantId of the role document takes precedence
verify_user_tenantId(user) ==
    LET doc == role_doc(users[user].role, user)
    IN str_or_None(IF doc # 0 /\ Truthy(profiles[doc].tenantId)
                   THEN profiles[doc].tenantId
                   ELSE users[user].tenantId)

\* POST /auth/token : login_for_access_token, login_user
login_user(email, password) ==
    LET user == verify_user(email, password)
    IN
    /\ IF user = 0
       THEN /\ last' = HttpAnswer("login_user", 400, "Invalid email or password",
                                  email, password, None)
            /\ UNCHANGED users
       ELSE /\ users' = [users EXCEPT ![user].lastLogin = TRUE]
            /\ last' = HttpAnswer("login_user", 200, "bearer", email, password,
                                  create_access_token(user, users[user].role,
                                                      verify_user_tenantId(user)))
    /\ UNCHANGED profiles
    /\ UNCHANGED <<courseVars, quizVars, calls, tenantVars, modules>>

\* Accounts: users sign up, teachers and admins are created, users log in
NextUser ==
    \/ \E e \in UserEmails, p \in Passwords, r \in SignupRoles :
          create_user(e, p, r, NoneVal)
    \/ \E e \in UserEmails, p \in Passwords, n \in {Lower("n1"), Lower("n9")} :
          create_teacher(e, p, n)
    \/ \E e \in UserEmails, p \in Passwords, c \in Passwords : create_admin(e, p, c)
    \/ \E e \in UserEmails, p \in Passwords : login_user(e, p)

UserSpec == Init /\ [][NextUser]_vars

----------------------------------------------------------------------------
(* app/crud/teachers.py: update_teacher and update_teacher_profile.  A     *)
(* teacher's _id is the position of its document in `profiles`, a user's   *)
(* _id the position of its document in `users`.                            *)

\* the keys of TeacherUpdate that the payloads set, and their values
TeacherKeys == {"fullName", "profileImageURL", "qualifications"}
TeacherValues(k) ==
    IF k = "fullName" THEN {None, "", "string", "v1"}
    ELSE IF k = "profileImageURL" THEN {"", "v1"}
    ELSE {None, "v1"}
TeacherUpdates ==
    UNION {{u \in [ks -> {None, "", "string", "v1"}] :
               \A k \in ks : u[k] \in TeacherValues(k)} :
             ks \in {x \in SUBSET TeacherKeys : Cardinality(x) <= MaxUpdateKeys}}

\* the account fields with the profile image left with the teacher
user_fields_without_image == {"fullName", "email", "contactNo", "country", "status"}

\* user_fields
user_fields ==
    {"fullName", "email", "profileImageURL", "contactNo", "country", "status"}

\* the function f on the keys in ks
Restrict(f, ks) == [k \in DOMAIN f \cap ks |-> f[k]]

\* cleaned_updates of update_teacher: None is skipped, and so is a blank
\* string unless the key is profileImageURL
cleaned_updates(updates) ==
    Restrict(updates, {k \in DOMAIN updates :
                          /\ updates[k] # None
                          /\ ~(updates[k] = "" /\ k # "profileImageURL")})

\* cleaned_updates of update_teacher_profile: only None is skipped
cleaned_profile_updates(updates) ==
    Restrict(updates, {k \in DOMAIN updates : updates[k] # None})

\* an update request and its response
TeacherAnswer(op, ok, msg, id, updates) ==
    [op |-> op, success |-> ok, message |-> msg, id |-> id, updates |-> updates]

\* the two $set writes of update_teacher and update_teacher_profile on user
\* user_id and teacher t with the cleaned payload
write_partitions(user_id, t, cleaned, time) ==
    LET user_updates == Restrict(cleaned, user_fields)
        teacher_updates == Restrict(cleaned, DOMAIN cleaned \ user_fields)
    IN /\ users' = IF DOMAIN user_updates # {} /\ user_id \in DOMAIN users
                   THEN [users EXCEPT ![user_id] =
                           Set(@, user_updates @@ [updatedAt |-> time])]
                   ELSE users
       /\ profiles' = IF DOMAIN teacher_updates # {}
                      THEN [profiles EXCEPT ![t] =
                              Set(@, teacher_updates @@ [updatedAt |-> time])]
                      ELSE profiles

\* PUT /teachers/{id} : update_teacher_route, update_teacher
update_teacher(id, updates) ==
    LET cleaned == cleaned_updates(updates)
    IN
    /\ IF ~(id \in DOMAIN profiles /\ profiles[id].collection = "teachers")
       THEN /\ last' = TeacherAnswer("update_teacher", FALSE, "Teacher not found",
                                     id, updates)
            /\ UNCHANGED <<userVars, now>>
       ELSE IF DOMAIN cleaned = {}
       THEN /\ last' = TeacherAnswer("update_teacher", TRUE, "unchanged", id, updates)
            /\ UNCHANGED <<userVars, now>>
       ELSE /\ now < MaxClock
            /\ now' = now + 1
            /\ write_partitions(profiles[id].userId, id, cleaned, now + 1)
            /\ last' = TeacherAnswer("update_teacher", TRUE, "updated", id, updates)
    /\ UNCHANGED <<courseVars, quizzes, submissions, calls, tenantVars, modules>>

\* db.teachers.find_one({"userId": user_id}): the first document, 0 for none
find_one_teacher(user_id) ==
    LET found == {t \in DOMAIN profiles : /\ profiles[t].collection = "teachers"
                                         /\ profiles[t].userId = user_id}
    IN IF found = {} THEN 0
       ELSE CHOOSE t \in found : \A x \in found : t <= x

\* PATCH /teachers/me : update_my_profile, update_teacher_profile
update_teacher_profile(user_id, updates) ==
    LET t == find_one_teacher(user_id)
        cleaned == cleaned_profile_updates(updates)
    IN
    /\ IF t = 0
       THEN /\ last' = TeacherAnswer("update_teacher_profile", FALSE,
                                     "Teacher profile not found", user_id, updates)
            /\ UNCHANGED <<userVars, now>>
       ELSE /\ now < MaxClock
            /\ now' = now + 1
            /\ write_partitions(user_id, t, cleaned, now + 1)
            /\ last' = TeacherAnswer("update_teacher_profile", TRUE, "updated",
                                     user_id, updates)
    /\ UNCHANGED <<courseVars, quizzes, submissions, calls, tenantVars, modules>>

\* Teacher profiles: teachers and admins are created and teachers updated,
\* through the teacher's id and through the teacher's own login
NextTeacher ==
    \/ \E e \in {Email("a", FALSE), Email("b", FALSE)} :
          create_teacher(e, "p1", Lower("n1"))
    \/ create_admin(Email("a", TRUE), "p1", "p1")
    \/ \E id \in 1..MaxUsers, u \in TeacherUpdates : update_teacher(id, u)
    \/ \E id \in 1..MaxUsers, u \in TeacherUpdates : update_teacher_profile(id, u)

TeacherSpec == Init /\ [][NextTeacher]_vars

----------------------------------------------------------------------------
(* app/auth/dependencies.py and the routes it guards; app/routers/auth and *)
(* app/routers/admins.py.  A token names its user by the position of the   *)
(* user's document in `users`.                                             *)

\* the ids db.tenants gives to its documents, in insertion order
TenantHexSeq == <<"n1", "n2">>

\* create_tenant: the tenant document of an admin email
tenant_doc(adminEmail) == [adminEmail |-> adminEmail, status |-> "active"]

\* POST /auth/admin/signup : signup_admin, create_tenant, create_user and
\* create_admin_profile
signup_admin(email, password, role) ==
    LET id == Lower(TenantHexSeq[Len(tenants) + 1])
        data == user_doc(lower(email), password, "admin", ObjectId(id), now + 1)
    IN
    /\ Len(tenants) < Len(TenantHexSeq)
    /\ Len(users) < MaxUsers
    /\ now < MaxClock
    /\ tenants' = Append(tenants, tenant_doc(email))
    /\ IF role # "admin"
       THEN /\ last' = HttpAnswer("signup_admin", 403,
                                  "This endpoint is only for admin signup",
                                  email, password, None)
            /\ UNCHANGED <<userVars, now>>
       ELSE \E stored \in insert_one_user(data.email) :
               IF stored
               THEN /\ users' = Append(users, data)
                    /\ profiles' = Append(profiles, [collection |-> "admins",
                                                     userId |-> Len(users) + 1,
                                                     tenantId |-> ObjectId(id),
                                                     createdAt |-> now + 1,
                                                     updatedAt |-> now + 1])
                    /\ now' = now + 1
                    /\ last' = HttpAnswer("signup_admin", 201,
                                          "Admin and tenant created successfully",
                                          email, password, None)
               ELSE /\ UNCHANGED <<userVars, now>>
                    /\ last' = HttpAnswer("signup_admin", 500, "DuplicateKeyError",
                                          email, password, None)
    /\ UNCHANGED <<courseVars, quizzes, submissions, calls, assignments,
                   assignmentSubmissions, modules>>

\* the bodies of PATCH /admin/teachers/{teacher_id}
TeacherData == {[tenantId |-> Lower("n2")], [tenantId |-> NoneVal]}

\* PATCH /admin/teachers/{teacher_id} : update_teacher of app/routers/admins.py
admins_update_teacher(teacher_id, data) ==
    LET update_data == Restrict(data, {k \in DOMAIN data : data[k] # NoneVal})
    IN
    /\ IF ~(teacher_id \in DOMAIN profiles
            /\ profiles[teacher_id].collection = "teachers")
       THEN /\ last' = [op |-> "admins_update_teacher", status |-> 404,
                        id |-> teacher_id, data |-> data]
            /\ UNCHANGED <<profiles, now>>
       ELSE IF DOMAIN update_data = {}
       THEN /\ last' = [op |-> "admins_update_teacher", status |-> 200,
                        id |-> teacher_id, data |-> data]
            /\ UNCHANGED <<profiles, now>>
       ELSE /\ now < MaxClock
            /\ now' = now + 1
            /\ profiles' = [profiles EXCEPT ![teacher_id] =
                              Set(@, update_data @@ [updatedAt |-> now + 1])]
            /\ last' = [op |-> "admins_update_teacher", status |-> 200,
                        id |-> teacher_id, data |-> data]
    /\ UNCHANGED users
    /\ UNCHANGED <<courseVars, quizzes, submissions, calls, tenantVars, modules>>

\* get_current_user: the user of the token, its role and its tenant; the
\* tenantId of the user document is read first, the role document only when
\* the user document has none
get_current_user(user_id) ==
    IF ~(user_id \in DOMAIN users /\ users[user_id].status \in {"active", "studying"})
    THEN [found |-> FALSE, user_id |-> user_id, role |-> None, tenant_id |-> NoneVal]
    ELSE LET user == users[user_id]
             doc == role_doc(user.role, user_id)
             tenant_id == IF Truthy(user.tenantId) THEN user.tenantId
                          ELSE IF doc # 0 THEN profiles[doc].tenantId
                          ELSE user.tenantId
         IN [found |-> TRUE, user_id |-> user_id, role |-> user.role,
             tenant_id |-> str_or_None(tenant_id)]

\* require_role(*allowed_roles): the role of the user is one of the allowed
require_role(allowed_roles, current_user) == current_user.role \in allowed_roles

\* require_tenant: the user has a tenant
require_tenant(current_user) == Truthy(current_user.tenant_id)

\* the roles the admin dashboard lets in
admin_roles == {"admin", "super-admin"}

\* the dependencies of a route: 401 without a user, 403 without the role or,
\* where the route asks for one, without a tenant, 0 when the handler runs
dependencies(allowed_roles, tenant_required, current_user) ==
    IF ~current_user.found THEN [status |-> 401, detail |-> "User not found or inactive"]
    ELSE IF ~require_role(allowed_roles, current_user)
    THEN [status |-> 403, detail |-> "Forbidden: Insufficient Role"]
    ELSE IF tenant_required /\ ~require_tenant(current_user)
    THEN [status |-> 403, detail |-> "Tenant context required for this operation"]
    ELSE [status |-> 0, detail |-> "passed"]

\* the answer of a guarded route to a user
RouteAnswer(op, current_user, status, detail) ==
    [op |-> op, user_id |-> current_user.user_id, role |-> current_user.role,
     tenant_id |-> current_user.tenant_id, status |-> status, detail |-> detail]

\* GET /admin/dashboard/teachers : list_teachers reads current_user["tenantId"],
\* a key get_current_user does not return
list_teachers(user_id) ==
    LET current_user == get_current_user(user_id)
        guard == dependencies(admin_roles, FALSE, current_user)
    IN
    /\ IF guard.status # 0
       THEN last' = RouteAnswer("list_teachers", current_user, guard.status, guard.detail)
       ELSE last' = RouteAnswer("list_teachers", current_user, 500, "KeyError")
    /\ UNCHANGED <<courseVars, quizVars, calls, userVars, tenantVars, modules>>

\* GET /tenants/ : get_all
get_all(user_id) ==
    LET current_user == get_current_user(user_id)
        guard == dependencies({"super_admin"}, FALSE, current_user)
    IN
    /\ IF guard.status # 0
       THEN last' = RouteAnswer("get_all", current_user, guard.status, guard.detail)
       ELSE last' = RouteAnswer("get_all", current_user, 200, "tenants")
    /\ UNCHANGED <<courseVars, quizVars, calls, userVars, tenantVars, modules>>

\* the bodies of POST /assignment-submissions/
SubmissionData ==
    {[assignmentId |-> Lower("q1"), fileUrl |-> f] : f \in {"", "v1"}}

\* POST /assignment-submissions/ : create_submission_route, create_submission
create_submission_route(user_id, data) ==
    LET current_user == get_current_user(user_id)
        guard == dependencies({"student"}, TRUE, current_user)
        answer(status, detail) ==
            RouteAnswer("create_submission_route", current_user, status, detail)
    IN
    /\ IF guard.status # 0
       THEN /\ last' = answer(guard.status, guard.detail)
            /\ UNCHANGED assignmentSubmissions
       ELSE IF data.fileUrl = ""
       THEN /\ last' = answer(400, "assignmentId, courseId, and fileUrl are required")
            /\ UNCHANGED assignmentSubmissions
       ELSE IF ~is_valid(current_user.tenant_id)
       THEN /\ last' = answer(400, "Invalid tenantId")
            /\ UNCHANGED assignmentSubmissions
       ELSE /\ Len(assignmentSubmissions) < MaxSubmissions
            /\ assignmentSubmissions' =
                  Append(assignmentSubmissions,
                         [studentId |-> user_id,
                          assignmentId |-> ObjectId(data.assignmentId),
                          tenantId |-> ObjectId(current_user.tenant_id),
                          fileUrl |-> data.fileUrl,
                          feedback |-> None, graded |-> FALSE])
            /\ last' = answer(200, "created")
    /\ UNCHANGED <<courseVars, quizVars, calls, userVars, assignments, tenants, modules>>

\* PUT /assignment-submissions/{submission_id} : grade_submission_route,
\* grade_submission
grade_submission_route(user_id, submission_id, feedback) ==
    LET current_user == get_current_user(user_id)
        guard == dependencies({"teacher", "admin"}, TRUE, current_user)
        answer(status, detail) ==
            RouteAnswer("grade_submission_route", current_user, status, detail)
    IN
    /\ IF guard.status # 0
       THEN /\ last' = answer(guard.status, guard.detail)
            /\ UNCHANGED assignmentSubmissions
       ELSE IF feedback = None
       THEN /\ last' = answer(400, "Nothing to update")
            /\ UNCHANGED assignmentSubmissions
       ELSE IF ~is_valid(current_user.tenant_id)
       THEN /\ last' = answer(400, "Invalid tenantId")
            /\ UNCHANGED assignmentSubmissions
       ELSE IF ~(/\ submission_id \in DOMAIN assignmentSubmissions
                 /\ assignmentSubmissions[submission_id].tenantId
                       = ObjectId(current_user.tenant_id))
       THEN /\ last' = answer(404, "Submission not found")
            /\ UNCHANGED assignmentSubmissions
       ELSE /\ assignmentSubmissions' =
                  [assignmentSubmissions EXCEPT ![submission_id] =
                      Set(@, [feedback |-> feedback, graded |-> TRUE])]
            /\ last' = answer(200, "graded")
    /\ UNCHANGED <<courseVars, quizVars, calls, userVars, assignments, tenants, modules>>

\* Accounts of every role are created, an admin edits a teacher's profile,
\* users log in and ask the guarded routes
AuthEmails == {Email("a", FALSE), Email("b", FALSE)}
NextAuth ==
    \/ \E r \in {"student", "super_admin"}, n \in {NoneVal, Lower("n1")} :
          create_user(Email("a", FALSE), "p1", r, n)
    \/ create_teacher(Email("b", FALSE), "p1", Lower("n1"))
    \/ \E r \in {"admin", "teacher"} : signup_admin(Email("b", FALSE), "p1", r)
    \/ \E t \in 1..MaxUsers, d \in TeacherData : admins_update_teacher(t, d)
    \/ \E e \in AuthEmails : login_user(e, "p1")
    \/ \E u \in 1..MaxUsers : list_teachers(u)
    \/ \E u \in 1..MaxUsers : get_all(u)
    \/ \E u \in 1..MaxUsers, d \in SubmissionData : create_submission_route(u, d)
    \/ \E u \in 1..MaxUsers, s \in 1..MaxSubmissions, f \in {None, "v1"} :
          grade_submission_route(u, s, f)

AuthSpec == Init /\ [][NextAuth]_vars

----------------------------------------------------------------------------
(* app/crud/assignments.py and app/routers/assignments.py.  An             *)
(* assignment's _id is the position of its document in `assignments`; a    *)
(* deleted document keeps its position with stored = FALSE.                *)

\* assignment documents that can be inserted in one behaviour
MaxAssignments == 2
\* readings of the clock in one behaviour of the assignment handlers
MaxAssignmentClock == 3

\* the teacher and tenant ids the assignment requests name
AssignmentTeacherIds == {Lower("t1"), Lower("t2"), Upper("t1")}
AssignmentTenantIds == {Lower("n1"), Lower("n2")}

\* an assignment request and what it returned
AssignmentAnswer(op, id, teacher_id, tenant_id, updates, result) ==
    [op |-> op, id |-> id, teacher_id |-> teacher_id, tenant_id |-> tenant_id,
     updates |-> updates, result |-> result]

\* POST /teachers/assignments : create_teacher_assignment_route stores the
\* teacherId and tenantId of the body
create_teacher_assignment_route(teacherId, tenantId) ==
    /\ Len(assignments) < MaxAssignments
    /\ now < MaxAssignmentClock
    /\ now' = now + 1
    /\ assignments' = Append(assignments,
                             [teacherId |-> ObjectId(teacherId),
                              tenantId |-> ObjectId(tenantId),
                              title |-> "v0", status |-> "active",
                              uploadedAt |-> now + 1, updatedAt |-> now + 1,
                              stored |-> TRUE])
    /\ last' = AssignmentAnswer("create_teacher_assignment_route", Len(assignments) + 1,
                                teacherId, tenantId, <<>>, "created")
    /\ UNCHANGED <<courseVars, quizzes, submissions, calls, userVars, tenants,
                   assignmentSubmissions, modules>>

\* find_one({"_id": id}): the lookup without the tenant
find_one_assignment_by_id(id, tenant_id) ==
    IF id \in DOMAIN assignments /\ assignments[id].stored THEN id ELSE 0

\* find_one({"_id": id, "tenantId": to_oid(tenant_id)}): id when the document
\* matches, 0 for None
find_one_assignment(id, tenant_id) ==
    IF /\ id \in DOMAIN assignments
       /\ assignments[id].stored
       /\ assignments[id].tenantId = ObjectId(tenant_id)
    THEN id ELSE 0

\* the update payloads of update_assignment
AssignmentUpdates ==
    {<<>>, [title |-> "v1"], [teacherId |-> Lower("t2")]}

\* update_assignment of app/crud/assignments.py
update_assignment(id, teacher_id, tenant_id, updates) ==
    LET assignment == find_one_assignment(id, tenant_id)
        updates_to_set ==
            Restrict(updates, {k \in DOMAIN updates :
                                  IF k \in {"teacherId", "tenantId"}
                                  THEN updates[k] # NoneVal
                                  ELSE updates[k] # None})
        answer(result) ==
            AssignmentAnswer("update_assignment", id, teacher_id, tenant_id,
                             updates, result)
    IN
    /\ IF DOMAIN updates = {}
       THEN /\ last' = answer("400 No updates provided")
            /\ UNCHANGED <<assignments, now>>
       ELSE IF assignment = 0
       THEN /\ last' = answer("None")
            /\ UNCHANGED <<assignments, now>>
       ELSE IF str(assignments[assignment].teacherId) # teacher_id
       THEN /\ last' = answer("UNAUTHORIZED")
            /\ UNCHANGED <<assignments, now>>
       ELSE /\ now < MaxAssignmentClock
            /\ now' = now + 1
            /\ assignments' = [assignments EXCEPT ![id] =
                                 Set(@, updates_to_set @@ [updatedAt |-> now + 1])]
            /\ last' = answer("updated")
    /\ UNCHANGED <<courseVars, quizzes, submissions, calls, userVars, tenants,
                   assignmentSubmissions, modules>>

\* delete_assignment of app/crud/assignments.py
delete_assignment(id, teacher_id, tenant_id) ==
    LET assignment == find_one_assignment(id, tenant_id)
        answer(result) ==
            AssignmentAnswer("delete_assignment", id, teacher_id, tenant_id,
                             <<>>, result)
    IN
    /\ IF assignment = 0
       THEN /\ last' = answer("None")
            /\ UNCHANGED assignments
       ELSE IF str(assignments[assignment].teacherId) # teacher_id
       THEN /\ last' = answer("UNAUTHORIZED")
            /\ UNCHANGED assignments
       ELSE /\ assignments' = [assignments EXCEPT ![id].stored = FALSE]
            /\ last' = answer("True")
    /\ UNCHANGED <<courseVars, quizVars, calls, userVars, tenants,
                   assignmentSubmissions, modules>>

\* the bodies of PUT /assignments/{id}
AssignmentRouteUpdates == {[title |-> "v1"], [status |-> "archived"]}

\* PUT /assignments/{id} : update_assignment_route for a teacher with a
\* tenant; the route calls update_assignment with the keyword assignment_id,
\* which update_assignment does not have
update_assignment_route(id, updates, user_id, tenant_id) ==
    LET update_data == Restrict(updates, DOMAIN updates \ {"teacherId", "tenantId"})
        answer(result) ==
            AssignmentAnswer("update_assignment_route", id, user_id, tenant_id,
                             updates, result)
    IN
    /\ IF "status" \in DOMAIN updates /\ updates.status \notin {"active", "inactive"}
       THEN last' = answer("400 Invalid status value")
       ELSE last' = answer("500 TypeError")
    /\ UNCHANGED <<courseVars, quizVars, calls, userVars, tenantVars, modules>>

\* DELETE /assignments/{id} : delete_assignment_route, with the same keyword
delete_assignment_route(id, user_id, tenant_id) ==
    /\ last' = AssignmentAnswer("delete_assignment_route", id, user_id, tenant_id,
                                <<>>, "500 TypeError")
    /\ UNCHANGED <<courseVars, quizVars, calls, userVars, tenantVars, modules>>

\* Teachers' assignments are created, updated and deleted
NextAssignment ==
    \/ \E t \in {Lower("t1"), Lower("t2")} :
          create_teacher_assignment_route(t, Lower("n1"))
    \/ \E id \in 1..MaxAssignments, t \in AssignmentTeacherIds,
          n \in AssignmentTenantIds, u \in AssignmentUpdates :
          update_assignment(id, t, n, u)
    \/ \E id \in 1..MaxAssignments, t \in AssignmentTeacherIds,
          n \in AssignmentTenantIds : delete_assignment(id, t, n)
    \/ \E id \in 1..MaxAssignments, u \in AssignmentRouteUpdates :
          update_assignment_route(id, u, Lower("t1"), Lower("n1"))
    \/ \E id \in 1..MaxAssignments :
          delete_assignment_route(id, Lower("t1"), Lower("n1"))

AssignmentSpec == Init /\ [][NextAssignment]_vars

----------------------------------------------------------------------------
(* app/crud/courses.py: reorder_lessons and reorder_modules.  A module is  *)
(* [id, order, lessons], a lesson is [id, order].                          *)

\* modules one course payload can carry
MaxModules == 2
\* lessons one module of a payload can carry
MaxLessons == 3
\* ids one reorder request can list
MaxRequestIds == 2

\* the ids of the modules and lessons of the payloads, in payload order
ModuleIdSeq == <<"m1", "m2", "m3", "m4">>
LessonIdSeq == <<"a", "b", "c", "d", "e">>

\* LessonSchema, ModuleSchema: k lessons, n modules of k lessons each, every
\* order the position in the list
LessonList(k) == [i \in 1..k |-> [id |-> LessonIdSeq[i], order |-> i - 1]]
ModuleList(n, k) ==
    [i \in 1..n |-> [id |-> ModuleIdSeq[i], order |-> i - 1, lessons |-> LessonList(k)]]
ModulePayloads == {ModuleList(n, k) : n \in 1..MaxModules, k \in 0..MaxLessons}

\* the sequences of at most n elements of S
SeqUpTo(S, n) == UNION {[1..k -> S] : k \in 0..n}

\* ReorderLessonsRequest.lessonIds, ReorderModulesRequest.moduleIds: "x" is
\* the id of no lesson and of no module
LessonIdLists == SeqUpTo({"a", "b", "x"}, MaxRequestIds)
ModuleIdLists == SeqUpTo({"m1", "m2", "x"}, MaxRequestIds)

\* the elements of a sequence
Range(seq) == {seq[i] : i \in DOMAIN seq}

\* lesson_map, module_map: {item.get("id"): item for item in items}; of two
\* items with one id the later one stays
item_map(items, id) ==
    items[CHOOSE i \in DOMAIN items :
             /\ items[i].id = id
             /\ \A j \in DOMAIN items : items[j].id = id => j <= i]

\* the order a listed item ends with: every occurrence of its id in the
\* request writes idx into the same item, the last one stays
listed_order(ids, id) ==
    (CHOOSE j \in DOMAIN ids : ids[j] = id /\ \A x \in DOMAIN ids : ids[x] = id => x <= j) - 1

\* the first loop: one entry for every listed id that is in the map
RECURSIVE listed_items(_, _, _)
listed_items(items, ids, j) ==
    IF j > Len(ids) THEN <<>>
    ELSE (IF ids[j] \in {items[i].id : i \in DOMAIN items}
          THEN <<[item_map(items, ids[j]) EXCEPT !.order = listed_order(ids, ids[j])]>>
          ELSE <<>>) \o listed_items(items, ids, j + 1)

\* the second loop: the items whose id is not listed, each with order
\* len(reordered) at the time it is appended
RECURSIVE unlisted_items(_, _, _, _)
unlisted_items(items, ids, i, n) ==
    IF i > Len(items) THEN <<>>
    ELSE IF items[i].id \notin Range(ids)
    THEN <<[items[i] EXCEPT !.order = n]>> \o unlisted_items(items, ids, i + 1, n + 1)
    ELSE unlisted_items(items, ids, i + 1, n)

\* reordered_lessons, reordered_modules
reordered(items, ids) ==
    LET listed == listed_items(items, ids, 1)
    IN listed \o unlisted_items(items, ids, 1, Len(listed))

\* a reorder request and its answer
ReorderAnswer(op, ok, msg, course_id, module_id, ids) ==
    [op |-> op, success |-> ok, message |-> msg, course_id |-> course_id,
     module_id |-> module_id, ids |-> ids]

\* update_course with a payload that supplies modules only
update_course_modules(course_id, tenantId, payload) ==
    LET respond(ok, msg) ==
            last' = ReorderAnswer("update_course_modules", ok, msg, course_id, None, <<>>)
    IN
    /\ IF \/ ~is_valid(course_id)
          \/ ~is_valid(tenantId)
          \/ ~HasDocInTenant(courses, ObjectId(course_id), ObjectId(tenantId))
       THEN /\ respond(FALSE, "not found")
            /\ UNCHANGED <<modules, now>>
       ELSE /\ now < MaxClock
            /\ now' = now + 1
            /\ modules' = [modules EXCEPT ![ObjectId(course_id).hex] = payload]
            /\ respond(TRUE, "updated")
    /\ UNCHANGED <<courseVars, quizzes, submissions, calls, userVars, tenantVars>>

\* the position of the first module with id module_id, 0 for none
module_index(course_modules, module_id) ==
    IF \E i \in DOMAIN course_modules : course_modules[i].id = module_id
    THEN CHOOSE i \in DOMAIN course_modules :
            /\ course_modules[i].id = module_id
            /\ \A j \in DOMAIN course_modules : course_modules[j].id = module_id => i <= j
    ELSE 0

\* PATCH /courses/{course_id}/reorder/lessons : reorder_lessons
reorder_lessons(course_id, tenant_id, module_id, lesson_ids) ==
    LET respond(ok, msg) ==
            last' = ReorderAnswer("reorder_lessons", ok, msg, course_id, module_id,
                                  lesson_ids)
        reject(msg) == respond(FALSE, msg) /\ UNCHANGED <<modules, now>>
    IN
    /\ IF ~is_valid(course_id) THEN reject("Invalid course ID format")
       ELSE IF ~is_valid(tenant_id) THEN reject("Invalid tenant ID format")
       ELSE IF ~HasDocInTenant(courses, ObjectId(course_id), ObjectId(tenant_id))
       THEN reject("Course not found or belongs to different tenant")
       ELSE LET course_modules == modules[ObjectId(course_id).hex]
                m == module_index(course_modules, module_id)
            IN IF m = 0 THEN reject("Module not found with ID")
               ELSE /\ now < MaxClock
                    /\ now' = now + 1
                    /\ modules' =
                          [modules EXCEPT ![ObjectId(course_id).hex][m].lessons =
                              reordered(@, lesson_ids)]
                    /\ respond(TRUE, "Lessons reordered successfully")
    /\ UNCHANGED <<courseVars, quizzes, submissions, calls, userVars, tenantVars>>

\* PATCH /courses/{course_id}/reorder/modules : reorder_modules
reorder_modules(course_id, tenant_id, module_ids) ==
    LET respond(ok, msg) ==
            last' = ReorderAnswer("reorder_modules", ok, msg, course_id, None,
                                  module_ids)
        reject(msg) == respond(FALSE, msg) /\ UNCHANGED <<modules, now>>
    IN
    /\ IF ~is_valid(course_id) THEN reject("Invalid course ID format")
       ELSE IF ~is_valid(tenant_id) THEN reject("Invalid tenant ID format")
       ELSE IF ~HasDocInTenant(courses, ObjectId(course_id), ObjectId(tenant_id))
       THEN reject("Course not found or belongs to different tenant")
       ELSE /\ now < MaxClock
            /\ now' = now + 1
            /\ modules' = [modules EXCEPT ![ObjectId(course_id).hex] =
                              reordered(@, module_ids)]
            /\ respond(TRUE, "Modules reordered successfully")
    /\ UNCHANGED <<courseVars, quizzes, submissions, calls, userVars, tenantVars>>

\* A course is created, its modules are set and reordered
NextReorder ==
    \/ create_course(Lower("t1"), Lower("n1"))
    \/ \E p \in ModulePayloads : update_course_modules(Lower("c1"), Lower("n1"), p)
    \/ \E c \in {Lower("c1"), BadStr}, n \in ReqTenantIds, m \in {"m1", "m9"},
          ids \in LessonIdLists : reorder_lessons(c, n, m, ids)
    \/ \E c \in {Lower("c1"), BadStr}, n \in ReqTenantIds, ids \in ModuleIdLists :
          reorder_modules(c, n, ids)

ReorderSpec == Init /\ [][NextReorder]_vars

----------------------------------------------------------------------------
(* Roster properties *)

\* student s lists course c: some stored string spells c's _id
ListsCourse(s, c) ==
    \E x \in students[s].enrolledCourses : is_valid(x) /\ ObjectId(x) = Oid(c)

\* the students that list course c
Roster(c) == {s \in DOMAIN students : ListsCourse(s, c)}

\* every course's counter is the number of students that list the course
CounterMatchesRoster ==
    \A c \in DOMAIN courses : courses[c].enrolledStudents = Cardinality(Roster(c))

\* C1: enroll_student and unenroll_student calls, run one after another from a
\* state where every counter equals the number of students listing the course,
\* leave every counter equal to that number.
C1_CounterFollowsRoster ==
    [][(last'.op \in {"enroll_student", "unenroll_student"} /\ CounterMatchesRoster)
          => CounterMatchesRoster']_vars

\* C2: enroll_student for a student who already lists the course (course and
\* student both of the requested tenant) is rejected as already enrolled and
\* changes neither the student's list nor the counter.
C2_SecondEnrollRejected ==
    [][last'.op = "enroll_student" =>
         \A c \in ReqCourseIds, s \in ReqStudentIds, n \in ReqTenantIds :
            ( /\ is_valid(c)
              /\ HasDocInTenant(courses, ObjectId(c), ObjectId(n))
              /\ HasDocInTenant(students, ObjectId(s), ObjectId(n))
              /\ ListsCourse(s.hex, c.hex)
              /\ enroll_student(c, s, n) )
            => ( /\ ~last'.success
                 /\ last'.message = "Student is already enrolled in this course"
                 /\ UNCHANGED <<students, courses>> )]_vars

\* C3: unenroll_student for a student whose list does not hold the requested
\* course ID is rejected and changes no list and no counter; when the course
\* and the student exist in the requested tenant the answer is "not enrolled".
C3_UnenrollNotEnrolledRejected ==
    [][last'.op = "unenroll_student" =>
         \A c \in ReqCourseIds, s \in ReqStudentIds, n \in ReqTenantIds :
            ( /\ ~(HasDoc(students, ObjectId(s))
                     /\ c \in students[s.hex].enrolledCourses)
              /\ unenroll_student(c, s, n) )
            => ( /\ ~last'.success
                 /\ UNCHANGED courseVars
                 /\ ( ( /\ is_valid(c)
                        /\ HasDocInTenant(courses, ObjectId(c), ObjectId(n))
                        /\ HasDocInTenant(students, ObjectId(s), ObjectId(n)) )
                      => last'.message = "Student is not enrolled in this course" ) )]_vars

\* an unenroll was answered "not enrolled" while the students do hold enrollments
C3_Witness ==
    /\ last.op = "unenroll_student"
    /\ last.message = "Student is not enrolled in this course"
    /\ \E s \in DOMAIN students : students[s].enrolledCourses # {}

CrossTenantMessages == {"Course found but belongs to different tenant",
                        "Student found but belongs to different tenant"}

\* C4: enroll_student for an existing course and student is rejected with a
\* "belongs to different tenant" message, changing no list and no counter,
\* whenever the course's or the student's tenant differs from the requested
\* tenant; an accepted enrollment joins a student and a course of one tenant.
C4_CrossTenantEnrollRejected ==
    [][last'.op = "enroll_student" =>
         \A c \in ReqCourseIds, s \in ReqStudentIds, n \in ReqTenantIds :
            ( /\ is_valid(c)
              /\ HasDoc(courses, ObjectId(c))
              /\ HasDoc(students, ObjectId(s))
              /\ enroll_student(c, s, n) )
            => /\ ( ( \/ courses[c.hex].tenantId # ObjectId(n)
                      \/ students[s.hex].tenantId # ObjectId(n) )
                    => ( /\ ~last'.success
                         /\ last'.message \in CrossTenantMessages
                         /\ UNCHANGED courseVars ) )
               /\ ( last'.success
                    => ( /\ students[s.hex].tenantId = courses[c.hex].tenantId
                         /\ courses[c.hex].tenantId = ObjectId(n) ) )]_vars

\* a student of the other tenant was turned away from an existing course
C4_Witness ==
    /\ last.op = "enroll_student"
    /\ last.message = "Student found but belongs to different tenant"
    /\ DOMAIN courses # {}

\* C5: right after a successful course delete, through either route, no
\* student's enrolledCourses and no teacher's assignedCourses names the deleted
\* course.
C5_DeleteLeavesNoReference ==
    [][(last'.op \in {"delete_course", "admin_delete_course"} /\ last'.success) =>
         \A c \in DOMAIN courses \ DOMAIN courses' :
            /\ \A s \in DOMAIN students : ~ListsCourse(s, c)'
            /\ \A t \in DOMAIN teachers : Oid(c) \notin teachers'[t].assignedCourses]_vars

----------------------------------------------------------------------------
(* Ownership properties *)

\* the teacher a stored teacherId value refers to, whatever its type
OwnerIn(cs, c) == ObjectId(cs[c].teacherId).hex
Owner(c) == OwnerIn(courses, c)

\* teacher t lists course c
AssignedIn(ts, t, c) == Oid(c) \in ts[t].assignedCourses
Assigned(t, c) == AssignedIn(teachers, t, c)

\* C6: an update_course that changes the course's teacher from X to another
\* teacher Y leaves the course out of X's assignedCourses and in Y's; an
\* update_course that keeps the teacher changes no teacher's list.
C6_ReassignMovesCourse ==
    [][(last'.op = "update_course" /\ last'.success) =>
         \A c \in DOMAIN courses :
            LET X == OwnerIn(courses, c)
                Y == OwnerIn(courses', c)
            IN IF X # Y
               THEN /\ (X \in DOMAIN teachers => ~AssignedIn(teachers', X, c))
                    /\ (Y \in DOMAIN teachers => AssignedIn(teachers', Y, c))
               ELSE teachers' = teachers]_vars

\* every teacher's list holds exactly the existing courses the teacher owns
ListsMirrorOwnership ==
    \A t \in DOMAIN teachers : \A c \in CourseHex :
        Assigned(t, c) <=> (c \in DOMAIN courses /\ Owner(c) = t)

\* C7: after any sequence of course create, update and delete requests, a
\* course is in a teacher's assignedCourses exactly when the course exists and
\* that teacher is its teacherId.
C7_ListsMirrorOwnership == ListsMirrorOwnership

\* every course is of the tenant of its teacher and of the students listing it
TenantsAgree ==
    \A c \in DOMAIN courses :
        /\ (Owner(c) \in DOMAIN teachers
              => teachers[Owner(c)].tenantId = courses[c].tenantId)
        /\ \A s \in Roster(c) : students[s].tenantId = courses[c].tenantId

\* C8: create_course, update_course and enroll_student requests keep every
\* course in the tenant of its teacher and of its enrolled students.
C8_NoCrossTenantReference ==
    [][(last'.op \in {"create_course", "update_course", "enroll_student"}
          /\ TenantsAgree) => TenantsAgree']_vars

----------------------------------------------------------------------------
(* Quiz edit lock properties *)

\* the request names an existing, not deleted quiz and its creating teacher
OwningCall(q, t) ==
    /\ is_valid(q)
    /\ HasDoc(quizzes, ObjectId(q))
    /\ ~quizzes[q.hex].isDeleted
    /\ t = str(quizzes[q.hex].teacherId)

\* the body supplies values for questions and/or totalMarks and nothing else
OnlyQuestionsOrMarks(supplied) ==
    DOMAIN supplied # {} /\ DOMAIN supplied \subseteq {"questions", "totalMarks"}

\* the stored quiz q holds every supplied value of the keys ks
AppliedIn(qs, q, supplied, ks) ==
    \A k \in DOMAIN supplied \cap ks : qs[q.hex][k] = supplied[k]

C11_LockedFieldsNeverChange ==
    [][\A q \in DOMAIN quizzes :
          count_documents(Oid(q)) > 0 =>
             \A k \in restricted_fields : quizzes'[q][k] = quizzes[q][k]]_vars

\* the request names an existing, not deleted quiz and a teacher who did not
\* create it
ForeignCall(q, t) ==
    /\ is_valid(q)
    /\ is_valid(t)
    /\ HasDoc(quizzes, ObjectId(q))
    /\ ~quizzes[q.hex].isDeleted
    /\ ObjectId(t) # quizzes[q.hex].teacherId

\* the answer to a foreign call: Unauthorized, nothing written
Refused == ~last'.success /\ last'.message = "Unauthorized" /\ UNCHANGED quizVars

\* C12: update_quiz and delete_quiz of an existing quiz by a teacher other
\* than its creator answer Unauthorized and leave quizzes and submissions
\* unchanged, whatever the submissions; a quiz document changes only through
\* an update or a delete that names its creating teacher.
C12_OnlyCreatorChangesQuiz ==
    [][/\ (last'.op = "update_quiz" /\ ForeignCall(last'._id, last'.teacherId))
            => Refused
       /\ last'.op = "delete_quiz" =>
             \A q \in ReqQuizIds, t \in QuizTeacherIds :
                (ForeignCall(q, t) /\ delete_quiz(q, t)) => Refused
       /\ \A x \in DOMAIN quizzes :
             quizzes'[x] # quizzes[x] =>
                \/ /\ last'.op = "update_quiz"
                   /\ ObjectId(last'._id) = Oid(x)
                   /\ last'.teacherId = str(quizzes[x].teacherId)
                \/ /\ last'.op = "delete_quiz"
                   /\ \E q \in ReqQuizIds :
                         /\ is_valid(q)
                         /\ ObjectId(q) = Oid(x)
                         /\ delete_quiz(q, str(quizzes[x].teacherId))]_vars

\* another teacher's update of a quiz that has a submission was refused
C12_Witness ==
    /\ last.op = "update_quiz"
    /\ last.message = "Unauthorized"
    /\ is_valid(last._id)
    /\ HasDoc(quizzes, ObjectId(last._id))
    /\ ObjectId(last.teacherId) # quizzes[last._id.hex].teacherId
    /\ count_documents(ObjectId(last._id)) > 0

\* C13: an update or a delete of a quiz requested by a teacher who did not
\* create it is answered with HTTP status 403.
C13_ForeignTeacherGets403 ==
    [][(last'.op \in {"update_quiz", "delete_quiz"} /\ last'.message = "Unauthorized")
          => quiz_route_status(last') = 403]_vars

\* the fields of quiz q outside ks are the same before and after the step
SameOutside(q, ks) ==
    /\ q \in DOMAIN quizzes'
    /\ DOMAIN quizzes'[q] = DOMAIN quizzes[q]
    /\ \A k \in DOMAIN quizzes[q] \ ks : quizzes'[q][k] = quizzes[q][k]

Listed(q) ==
    \/ \E t \in {Lower(h) : h \in TeacherHex} \cup {NoneVal} : q \in get_quizzes_filtered(t)
    \/ \E n \in TenantHex : q \in get_student_quizzes({Oid("c1")}, Oid(n))
    \/ \E t \in TeacherHex : q \in get_teacher_quizzes_route(Lower(t))

\* C15: a soft-deleted quiz stays deleted and unchanged, every later get,
\* update or delete of it reports it as not found, and it appears in no
\* quiz listing (filtered list, student list, teacher list).
C15_DeletedIsTerminal ==
    /\ [](\A q \in DOMAIN quizzes : quizzes[q].isDeleted =>
             get_quiz(Lower(q)) = None /\ ~Listed(q))
    /\ [][\A q \in DOMAIN quizzes : quizzes[q].isDeleted =>
             /\ q \in DOMAIN quizzes' /\ quizzes'[q] = quizzes[q]
             /\ (last'.op = "update_quiz" /\ last'._id = Lower(q))
                   => (~last'.success /\ last'.message = "Quiz not found")
             /\ \A t \in QuizTeacherIds : delete_quiz(Lower(q), t)
                   => (~last'.success /\ last'.message = "Quiz not found")]_vars

\* C16: the list write and the counter write of an enrollment are separate
\* store operations: the list write adds or removes the course as a set
\* operation and leaves the counter alone, and the counter write moves the
\* counter by one whatever the list write changed; overlapping requests for
\* one student and course can therefore finish with a counter that differs
\* from the number of students listing the course (C16_Witness).
C16_ListAndCounterWrittenApart ==
    [][\A i \in DOMAIN calls :
          LET call == calls[i]
              s == call.student_id.hex
              c == call.course_id.hex
              enroll == call.op = "enroll_student"
          IN /\ enrollment_list(i) =>
                  /\ courses' = courses
                  /\ students'[s].enrolledCourses =
                        IF enroll THEN students[s].enrolledCourses \cup {call.course_id}
                        ELSE students[s].enrolledCourses \ {call.course_id}
             /\ enrollment_counter(i) =>
                  /\ students' = students
                  /\ courses'[c].enrolledStudents =
                        courses[c].enrolledStudents + (IF enroll THEN 1 ELSE -1)
                  /\ last'.success]_vars

\* every request has answered, the last one an accepted enrollment, and the
\* counter of a course is not the number of students that list it
C16_Witness ==
    /\ calls = <<>>
    /\ last.op = "enroll_student"
    /\ last.success
    /\ ~CounterMatchesRoster

\* no list names a course that does not exist, and a course is in a
\* teacher's list exactly when that teacher is its teacherId
RosterConsistent ==
    /\ ListsMirrorOwnership
    /\ \A s \in DOMAIN students : \A c \in CourseHex \ DOMAIN courses : ~ListsCourse(s, c)

\* C17: when a course delete or an owner reassignment has stopped after one
\* of its writes and the same request is sent again, the answered retry
\* leaves the collections consistent: a deleted course is in no teacher's
\* or student's list, a reassigned course is in the new teacher's list and
\* in no other; a set or pull step applied twice changes nothing more.
C17_RetryRestoresConsistency ==
    /\ [](\A t \in DOMAIN teachers : \A c \in CourseHex :
            /\ PullAssigned(PullAssigned(teachers, Oid(t), Oid(c)), Oid(t), Oid(c))
                  = PullAssigned(teachers, Oid(t), Oid(c))
            /\ AddToSetAssigned(AddToSetAssigned(teachers, Oid(t), Oid(c)), Oid(t), Oid(c))
                  = AddToSetAssigned(teachers, Oid(t), Oid(c)))
    /\ [][(/\ last.op = "stopped"
           /\ last' # last
           /\ last'.op = last.request.op
           /\ last'.request = last.request)
             => RosterConsistent']_vars

\* C18: a login with an unknown email or a wrong password is answered with
\* HTTP status 401 and issues no token.
C18_BadLoginGets401 ==
    [][(last'.op = "login_user" /\ verify_user(last'.email, last'.password) = 0)
          => (last'.status = 401 /\ last'.token = None)]_vars

\* some user is registered under the address, case ignored
Registered(email) == \E i \in DOMAIN users : lower(users[i].email) = lower(email)

\* C20: no two user records have emails that are equal ignoring case, and
\* a create request (create_user, create_teacher, create_admin) with an
\* already registered email is rejected with 400 and inserts no user and
\* no profile record.
C20_EmailsUniqueIgnoringCase ==
    /\ [](\A i, j \in DOMAIN users :
            lower(users[i].email) = lower(users[j].email) => i = j)
    /\ [][(/\ last'.op \in {"create_user", "create_teacher", "create_admin"}
           /\ Registered(last'.email))
             => (last'.status = 400 /\ UNCHANGED userVars)]_vars

\* C19: update_course and delete_course called with a malformed course
\* identifier answer with HTTP 400 and write nothing.
C19_MalformedIdGets400 ==
    [][last'.op \in {"update_course", "delete_course"} =>
         /\ \A n \in ReqTenantIds : delete_course(BadStr, n) =>
               (course_route_status(last') = 400 /\ UNCHANGED courseVars)
         /\ \A n \in ReqTenantIds, u \in CourseUpdates : update_course(BadStr, n, u) =>
               (course_route_status(last') = 400 /\ UNCHANGED courseVars)]_vars

\* C26: in every interleaving of enroll_student and unenroll_student
\* requests no course's enrolledStudents counter is negative.
C26_CounterNeverNegative ==
    \A c \in DOMAIN courses : courses[c].enrolledStudents >= 0

\* C30: once a quiz is soft-deleted no update_quiz request writes to it:
\* description, dueDate, status, questions, totalMarks and quizNumber keep
\* the values they had at deletion.
C30_NoWriteAfterDelete ==
    [][\A q \in DOMAIN quizzes : quizzes[q].isDeleted =>
          \A k \in {"description", "dueDate", "status", "questions", "totalMarks",
                    "quizNumber"} : quizzes'[q][k] = quizzes[q][k]]_vars

\* the account fields, which belong to the user record
AccountFields == {"fullName", "email", "profileImageURL", "contactNo", "country", "status"}

\* the keys of the payload that update operation op does not skip
KeptKeys(op, updates) ==
    {k \in DOMAIN updates :
        /\ updates[k] # None
        /\ op = "update_teacher" => ~(updates[k] = "" /\ k # "profileImageURL")}

\* the teacher and the user that the answered update names
UpdatedTeacher ==
    IF last'.op = "update_teacher" THEN last'.id ELSE find_one_teacher(last'.id)
UpdatedUser ==
    IF last'.op = "update_teacher" THEN profiles[last'.id].userId ELSE last'.id

\* C21: update_teacher and update_teacher_profile write the account fields
\* of the payload only to the linked user record and the other fields only
\* to the teacher record; a record whose partition is empty is unchanged,
\* updatedAt included, and a record whose partition is not empty has its
\* partition's values and updatedAt stamped with the time of the update.
C21_PayloadIsPartitioned ==
    [][(last'.op \in {"update_teacher", "update_teacher_profile"} /\ last'.success) =>
         LET t == UpdatedTeacher
             u == UpdatedUser
             kept == KeptKeys(last'.op, last'.updates)
             account == kept \cap AccountFields
             other == kept \ AccountFields
         IN /\ \A i \in DOMAIN users : i # u => users'[i] = users[i]
            /\ \A i \in DOMAIN profiles : i # t => profiles'[i] = profiles[i]
            /\ DOMAIN users'[u] = DOMAIN users[u]
            /\ DOMAIN profiles'[t] \cap AccountFields = {}
            /\ \A k \in DOMAIN users[u] \ (account \cup {"updatedAt"}) :
                  users'[u][k] = users[u][k]
            /\ \A k \in DOMAIN profiles[t] \ (other \cup {"updatedAt"}) :
                  profiles'[t][k] = profiles[t][k]
            /\ \A k \in account : users'[u][k] = last'.updates[k]
            /\ \A k \in other : profiles'[t][k] = last'.updates[k]
            /\ IF account = {} THEN users'[u] = users[u]
               ELSE users'[u].updatedAt = now' /\ now' > now
            /\ IF other = {} THEN profiles'[t] = profiles[t]
               ELSE profiles'[t].updatedAt = now' /\ now' > now]_vars

\* an update has just written the user record and left the teacher record
\* as it was
C21_Witness ==
    /\ last.op \in {"update_teacher", "update_teacher_profile"}
    /\ last.success
    /\ KeptKeys(last.op, last.updates) # {}
    /\ KeptKeys(last.op, last.updates) \subseteq AccountFields
    /\ \E u \in DOMAIN users : users[u].updatedAt = now /\ users[u].createdAt < now
    /\ \A t \in DOMAIN profiles : profiles[t].updatedAt < now

\* C22: in update_teacher and update_teacher_profile a field supplied as
\* the empty string or as the placeholder "string" keeps its stored value,
\* unless it is the image URL supplied as the empty string.
C22_BlankAndPlaceholderAreNoChange ==
    [][(last'.op \in {"update_teacher", "update_teacher_profile"} /\ last'.success) =>
         LET t == UpdatedTeacher
             u == UpdatedUser
         IN \A k \in DOMAIN last'.updates :
               (/\ last'.updates[k] \in {"", "string"}
                /\ ~(k = "profileImageURL" /\ last'.updates[k] = ""))
                 => /\ k \in DOMAIN users[u] => users'[u][k] = users[u][k]
                    /\ k \in DOMAIN profiles[t] => profiles'[t][k] = profiles[t][k]]_vars

----------------------------------------------------------------------------
(* Authorization properties *)

\* the guarded routes, the roles each is meant to let in and whether it
\* asks for a tenant
GuardedRoutes ==
    {"list_teachers", "get_all", "create_submission_route", "grade_submission_route"}
IntendedRoles(route) ==
    IF route = "list_teachers" THEN {"admin", "super_admin"}
    ELSE IF route = "get_all" THEN {"super_admin"}
    ELSE IF route = "create_submission_route" THEN {"student"}
    ELSE {"teacher", "admin"}
TenantRequired(route) ==
    route \in {"create_submission_route", "grade_submission_route"}

\* the answer is one of the two refusals of the guards
RefusedByGuard(answer) ==
    /\ answer.status = 403
    /\ answer.detail \in {"Forbidden: Insufficient Role",
                          "Tenant context required for this operation"}

\* C23: on a guarded route a request of an authenticated user whose role is
\* not among the route's roles, or who has no tenant where the route asks
\* for one, is answered 403 and writes nothing, and a user with one of the
\* intended roles (admin or super_admin on the admin dashboard listings) and
\* a tenant where one is asked for is not refused by the guard.
C23_GuardsRefuseAndAdmit ==
    [][(last'.op \in GuardedRoutes /\ last'.status # 401) =>
         LET admitted == /\ last'.role \in IntendedRoles(last'.op)
                         /\ TenantRequired(last'.op) => Truthy(last'.tenant_id)
         IN IF admitted THEN ~RefusedByGuard(last')
            ELSE /\ RefusedByGuard(last')
                 /\ UNCHANGED <<courseVars, quizVars, userVars, tenantVars, modules>>]_vars

\* C27: signup_admin with a role other than admin answers 403 and creates
\* no tenant, no user and no admin profile.
C27_RejectedSignupLeavesNothing ==
    [][\A e \in AuthEmails, r \in {"admin", "teacher"} :
          (signup_admin(e, "p1", r) /\ r # "admin") =>
             /\ last'.status = 403
             /\ UNCHANGED <<tenants, users, profiles>>]_vars

\* the tenant that get_current_user resolves for the user of the token issued last
ResolvedTenant == get_current_user(last.token.user_id).tenant_id

\* C28: the tenant id of the token that login_user issues is the tenant id
\* that get_current_user resolves for the user of the token, also when the
\* user record and the profile record carry different tenantId values.
C28_LoginAndRequestAgreeOnTenant ==
    [][(last'.op = "login_user" /\ last'.success) =>
          last'.token.tenant_id = ResolvedTenant']_vars

----------------------------------------------------------------------------
(* Assignment properties *)

\* the stored assignment id belongs to tenant tenant_id and teacher teacher_id
OwnedAssignment(id, teacher_id, tenant_id) ==
    /\ id \in DOMAIN assignments
    /\ assignments[id].stored
    /\ ObjectId(assignments[id].tenantId) = ObjectId(tenant_id)
    /\ ObjectId(assignments[id].teacherId) = ObjectId(teacher_id)

\* the request answered last came from a teacher and a tenant that do not
\* own the assignment it names
ForeignAssignmentRequest ==
    /\ last'.op \in {"update_assignment", "delete_assignment"}
    /\ ~OwnedAssignment(last'.id, last'.teacher_id, last'.tenant_id)

\* update_assignment and delete_assignment change at most the assignment
\* they name, and only for its teacher in its tenant
OnlyOwnerWrites ==
    (last'.op \in {"update_assignment", "delete_assignment"}
       /\ assignments' # assignments)
      => /\ OwnedAssignment(last'.id, last'.teacher_id, last'.tenant_id)
         /\ \A a \in DOMAIN assignments : a # last'.id => assignments'[a] = assignments[a]

\* the assignment routes keep every assignment's teacherId and tenantId
RouteKeepsOwner ==
    last'.op \in {"update_assignment_route", "delete_assignment_route"}
      => \A a \in DOMAIN assignments :
            /\ assignments'[a].teacherId = assignments[a].teacherId
            /\ assignments'[a].tenantId = assignments[a].tenantId

----------------------------------------------------------------------------
(* Reorder properties *)

\* the list a successful reorder request names, before and after it
ReorderedBefore ==
    LET ms == modules[ObjectId(last'.course_id).hex]
    IN IF last'.op = "reorder_modules" THEN ms
       ELSE ms[module_index(ms, last'.module_id)].lessons
ReorderedAfter ==
    LET ms == modules'[ObjectId(last'.course_id).hex]
    IN IF last'.op = "reorder_modules" THEN ms
       ELSE ms[module_index(modules[ObjectId(last'.course_id).hex],
                            last'.module_id)].lessons

\* the ids of a list of items, in list order
IdsOf(items) == [i \in DOMAIN items |-> items[i].id]

\* the ids of a request that name an item of the list, each once, in the
\* order of their first occurrence
RECURSIVE NamedOnce(_, _, _)
NamedOnce(ids, known, j) ==
    IF j > Len(ids) THEN <<>>
    ELSE (IF ids[j] \in known /\ \A x \in 1..(j - 1) : ids[x] # ids[j]
          THEN <<ids[j]>> ELSE <<>>) \o NamedOnce(ids, known, j + 1)

\* the ids of the list that the request does not name, in list order
Unnamed(items, ids) == SelectSeq(IdsOf(items), LAMBDA x : x \notin Range(ids))

\* a reorder request has just succeeded
Reordered == last'.op \in {"reorder_lessons", "reorder_modules"} /\ last'.success

\* C24: reorder_lessons and reorder_modules only permute: after the call
\* the stored list holds every original item exactly once and nothing else,
\* the items the request names first, in request order, then the items it
\* does not name in their original order, whatever unknown, missing or
\* repeated ids the request lists.
C24_ReorderOnlyPermutes ==
    [][Reordered =>
         /\ Len(ReorderedAfter) = Len(ReorderedBefore)
         /\ IdsOf(ReorderedAfter) =
               NamedOnce(last'.ids, Range(IdsOf(ReorderedBefore)), 1)
                 \o Unnamed(ReorderedBefore, last'.ids)]_vars

\* C29: after a successful reorder_lessons or reorder_modules the order of
\* every item of the list is its zero-based position in the stored list.
C29_OrderIsPosition ==
    [][Reordered =>
         \A i \in DOMAIN ReorderedAfter : ReorderedAfter[i].order = i - 1]_vars

====
